---------------------------- MODULE Spec2Model ----------------------------
(***************************************************************************)
(* A model of the extinction engine of transit (src/transit/src/           *)
(* extinction.c) and of its slant-path integrator (slantpath.c).           *)
(*                                                                         *)
(* Numbers.  The program works on IEEE doubles.  The model works on        *)
(* integers: wavenumbers are counted in a unit such that the oversampled   *)
(* grid spacing odwn is a whole number of units, and every comparison of   *)
(* two quotients of the code is made after cross-multiplying, so that it   *)
(* is exact.  The transcendental factors of a line strength are folded     *)
(* into the line's gf.                                                     *)
(***************************************************************************)
EXTENDS Integers, Sequences, FiniteSets, TLC

(***************************************************************************)
(* Bounds of the model.                                                    *)
(***************************************************************************)
MaxRad   == 2      \* largest number of layers tr->rads.n
MaxWn    == 3      \* largest number of output wavenumber points tr->wns.n
MaxVal   == 4      \* largest value of a row on which the interpolation is still called
GridOdwn == 2      \* odwn of every run but those of the co-adding loop

VARIABLES
  op,        \* the last operation that ran and the layer it was given
  ret,       \* what it returned, or how it ended
  nrad,      \* tr->rads.n
  nwn,       \* tr->wns.n
  niso,      \* tr->ds.iso->n_i
  pi,        \* TRUE iff the TRPI_EXTWN bit of tr->pi is set
  alloc,     \* TRUE iff ex->e and ex->computed are allocated
  e,         \* the contiguous block ex->e[0], row i at offset i*nwn
  eden,      \* the divisor of each cell: kiso[r][i] is e[q]/eden[q], 1 for a whole value
  computed,  \* ex->computed
  file,      \* the bytes of the extinction savefile, NoFile if it cannot be opened
  saved,     \* history: grid and flags at the last successful save
  first,     \* history: per layer, the row its first computemolext left since the last free
  lines,     \* the line transitions tr->ds.li->lt
  ethresh,   \* ex->ethresh, in units of 1/EthreshDen
  width,     \* per isotope: Lorentz width and Doppler width at wn[0]
  ta,        \* times-of-alpha used to build the profile cache
  temp,      \* tr->atm.t[r]*tr->atm.tfct, per layer
  junk,      \* what a read outside an array finds
  odwn,      \* tr->owns.d/tr->owns.o, the spacing of the oversampled grid
  dwn,       \* tr->wns.d/tr->wns.o
  wk,        \* parallel layer computations: the workers
  arg,       \* the arguments of a pure function under test
  res        \* its result

vars == <<op, ret, nrad, nwn, niso, pi, alloc, e, eden, computed, file, saved, first,
          lines, ethresh, width, ta, temp, junk, odwn, dwn, wk, arg, res>>

(* What the run reads and never writes. *)
inputs == <<nrad, nwn, niso, lines, ethresh, width, ta, temp, junk, odwn, dwn>>

Max(a, b) == IF a < b THEN b ELSE a
Min(a, b) == IF a < b THEN a ELSE b
Abs(a)    == IF a < 0 THEN -a ELSE a

(* C integer division: the quotient is truncated toward zero. *)
CDiv(a, b) ==
  IF (a >= 0) = (b > 0) THEN Abs(a) \div Abs(b) ELSE -(Abs(a) \div Abs(b))

RECURSIVE Gcd(_, _)
(* The greatest common divisor of two naturals. *)
Gcd(a, b) == IF b = 0 THEN a ELSE Gcd(b, a % b)

(* The quotient num/den of two doubles that hold whole numbers, as the     *)
(* fraction n/d in lowest terms with d > 0; d = 0 is the quotient by zero, *)
(* which is not a number.                                                  *)
Quot(num, den) ==
  IF den = 0 THEN [n |-> 0, d |-> 0]
  ELSE LET g == Gcd(Abs(num), Abs(den))
       IN  IF den < 0 THEN [n |-> (-num) \div g, d |-> (-den) \div g]
           ELSE [n |-> num \div g, d |-> den \div g]

(* x + y, x * y, x / y and x = y on such fractions. *)
QAdd(x, y) == IF x.d = 0 \/ y.d = 0 THEN Quot(0, 0) ELSE Quot(x.n * y.d + y.n * x.d, x.d * y.d)
QMul(x, y) == IF x.d = 0 \/ y.d = 0 THEN Quot(0, 0) ELSE Quot(x.n * y.n, x.d * y.d)
QDiv(x, y) == IF x.d = 0 \/ y.d = 0 THEN Quot(0, 0) ELSE Quot(x.n * y.d, x.d * y.n)
QLess(x, y) == x.d # 0 /\ y.d # 0 /\ x.n * y.d < y.n * x.d

RECURSIVE SumTo(_, _)
(* Sum of f(0) .. f(n-1), f a function on 0..n-1. *)
SumTo(f, n) == IF n <= 0 THEN 0 ELSE f[n-1] + SumTo(f, n-1)


(***************************************************************************)
(* How an operation ends.  transiterror(TERR_CRITICAL) and printone() end  *)
(* the process; a TERR_WARNING only prints.                                *)
(***************************************************************************)
Did(f, r)   == [f |-> f, r |-> r]
ReturnedZero(c) == [code |-> 0, how |-> "return"]
Returned(c) == [code |-> c, how |-> "return"]
Warned      == [code |-> 0, how |-> "warning"]
Critical    == [code |-> 0, how |-> "critical"]
Exited      == [code |-> 0, how |-> "exit"]
Crashed     == [code |-> 0, how |-> "signal"]
Running     == ret.how \in {"return", "warning"}

(* No first run of computemolext on a layer yet; no call and no result. *)
NoRow == [ok |-> FALSE, again |-> FALSE, row |-> << >>]
NoArg == [f |-> "none"]

(* The process is ended by a signal, and the structure is gone with it. *)
Dead ==
  /\ ret' = Crashed
  /\ alloc' = FALSE
  /\ pi' = FALSE
  /\ e' = << >>
  /\ eden' = << >>
  /\ computed' = << >>
  /\ first' = [r \in DOMAIN first |-> NoRow]
  /\ res' = NoArg

Layers == 0 .. nrad-1
Cells  == 0 .. nrad*nwn - 1

(* kiso[r][i]: ex->e[r] = ex->e[0] + r*nwn. *)
At(grid, r, i) == grid[r*nwn + i]
Row(grid, r)   == [i \in 0 .. nwn-1 |-> At(grid, r, i)]

(***************************************************************************)
(* The savefile.  A PREC_RES takes ResBytes bytes (scaled down from the 8  *)
(* of a double), least significant first; a _Bool takes one byte.          *)
(***************************************************************************)
ResBytes == 2

RECURSIVE Pow256(_)
Pow256(k) == IF k = 0 THEN 1 ELSE 256 * Pow256(k-1)

EncodeRes(v) == [k \in 1 .. ResBytes |-> (v \div Pow256(k-1)) % 256]

RECURSIVE DecodeRes(_)
DecodeRes(bytes) ==
  IF bytes = << >> THEN 0 ELSE Head(bytes) + 256 * DecodeRes(Tail(bytes))

BoolByte(b) == IF b THEN 1 ELSE 0
ByteBool(x) == x # 0

(* The memory of n PREC_RES elements starting at e[0], as bytes. *)
GridBytes(grid, n) ==
  [q \in 1 .. n*ResBytes |-> EncodeRes(grid[(q-1) \div ResBytes])[((q-1) % ResBytes) + 1]]

BytesGrid(bytes, n) ==
  [k \in 0 .. n-1 |-> DecodeRes(SubSeq(bytes, k*ResBytes + 1, (k+1)*ResBytes))]

FlagBytes(c, n) == [q \in 1 .. n |-> BoolByte(c[q-1])]
BytesFlags(bytes, n) == [k \in 0 .. n-1 |-> ByteBool(bytes[k+1])]

(* "@E@S@" *)
Magic == <<64, 69, 64, 83, 64>>

(* fread(buf, size, n, fp): the bytes the stream still holds are copied   *)
(* over the start of the buffer, at most as many as the buffer takes.     *)
Fread(buf, stream) ==
  [q \in 1 .. Len(buf) |-> IF q <= Len(stream) THEN stream[q] ELSE buf[q]]

Drop(stream, n) ==
  IF n >= Len(stream) THEN << >> ELSE SubSeq(stream, n+1, Len(stream))

SavedBytes(grid, c, nr, nw) ==
  Magic \o GridBytes(grid, nr*nw) \o FlagBytes(c, nr)

(* ex->computed is NULL: its calloc in extwn failed. *)
NoFlags == alloc /\ computed = << >>

(* savefile_extinct(filename, e, c, nrad, nwav); opened says whether      *)
(* fopen(filename, "w") succeeds.  With c NULL the fwrite of the flags     *)
(* ends the process before anything buffered has reached the file, which   *)
(* fopen has emptied.                                                      *)
savefile_extinct(opened) ==
  /\ Running /\ alloc
  /\ op' = Did("savefile_extinct", -1)
  /\ IF ~opened
       THEN /\ ret' = Warned
            /\ UNCHANGED <<pi, alloc, e, eden, computed, first, res, file, saved>>
     ELSE IF NoFlags
       THEN /\ Dead
            /\ file' = [exists |-> TRUE, bytes |-> << >>]
            /\ UNCHANGED saved
       ELSE /\ ret' = Returned(0)
            /\ file' = [exists |-> TRUE, bytes |-> SavedBytes(e, computed, nrad, nwn)]
            /\ saved' = [ok |-> TRUE, e |-> e, c |-> computed]
            /\ UNCHANGED <<pi, alloc, e, eden, computed, first, res>>
  /\ UNCHANGED <<inputs, wk, arg>>

(* A restore that only asks for five bytes, whatever they are. *)
AnyFiveBytes(bytes) == Len(bytes) >= 5

RestoreMagicOk(bytes) ==
  /\ Len(bytes) >= 5
  /\ SubSeq(bytes, 1, 5) = Magic

(* A restore that reads the values from the first byte of the file. *)
RestoredGridFromStart(grid, bytes) ==
  BytesGrid(Fread(GridBytes(grid, nrad*nwn), bytes), nrad*nwn)

RestoredGrid(grid, bytes) ==
  BytesGrid(Fread(GridBytes(grid, nrad*nwn), Drop(bytes, 5)), nrad*nwn)

(* The elements that the read has written to hold what the file gave. *)
RestoredDen(den, bytes) ==
  [q \in DOMAIN den |-> IF q * ResBytes < Len(Drop(bytes, 5)) THEN 1 ELSE den[q]]

RestoredFlags(c, bytes) ==
  BytesFlags(Fread(FlagBytes(c, nrad), Drop(bytes, 5 + nrad*nwn*ResBytes)), nrad)

(* restfile_extinct(filename, e, c, nrad, nwav); opened says whether      *)
(* fopen(filename, "r") succeeds on an existing file.  With c NULL the     *)
(* read of the flags, or the loop over c[i] after it, ends the process.    *)
restfile_extinct(opened) ==
  /\ Running /\ alloc
  /\ op' = Did("restfile_extinct", -1)
  /\ IF ~file.exists \/ ~opened
       THEN /\ ret' = Warned
            /\ UNCHANGED <<pi, alloc, e, eden, computed, first, res>>
       ELSE IF ~RestoreMagicOk(file.bytes)
         THEN /\ ret' = Warned
              /\ UNCHANGED <<pi, alloc, e, eden, computed, first, res>>
       ELSE IF NoFlags
         THEN Dead
         ELSE /\ ret' = Returned(0)
              /\ e' = RestoredGrid(e, file.bytes)
              /\ eden' = RestoredDen(eden, file.bytes)
              /\ computed' = RestoredFlags(computed, file.bytes)
              /\ UNCHANGED <<pi, alloc, first, res>>
  /\ UNCHANGED <<inputs, file, saved, wk, arg>>

(***************************************************************************)
(* extwn(tr).  mem is the number of its three calloc calls that succeed,   *)
(* in the order of the code.  With none, ex->e is NULL and the store into  *)
(* ex->e[0] ends the process; with one, ex->e[0] is NULL and               *)
(* transiterror(TERR_CRITICAL|TERR_ALLOC) ends it; with two, ex->computed  *)
(* is NULL, which the code does not look at.  With a single layer extwn    *)
(* ends in printone(); out says whether its fopen of tr->f_out gives a     *)
(* stream: printone() exits after printing to it, and the fprintf to a     *)
(* NULL stream ends the process.                                           *)
(***************************************************************************)

extwn(mem, out) ==
  /\ Running
  /\ op' = Did("extwn", -1)
  /\ IF nrad < 1 THEN
       /\ ret' = Returned(-2)
       /\ UNCHANGED <<pi, alloc, e, eden, computed, first, res>>
     ELSE IF nwn < 2 THEN
       /\ ret' = Returned(-3)
       /\ UNCHANGED <<pi, alloc, e, eden, computed, first, res>>
     ELSE IF niso < 1 THEN
       /\ ret' = Returned(-5)
       /\ UNCHANGED <<pi, alloc, e, eden, computed, first, res>>
     ELSE IF mem = 0 THEN
       Dead
     ELSE IF mem = 1 THEN
       /\ ret' = Critical
       /\ UNCHANGED <<pi, alloc, e, eden, computed, first, res>>
     ELSE IF nrad = 1 /\ ~out THEN
       Dead
     ELSE
       /\ alloc' = TRUE
       /\ e' = [q \in Cells |-> 0]
       /\ eden' = [q \in Cells |-> 1]
       /\ computed' = IF mem = 2 THEN << >> ELSE [r \in Layers |-> FALSE]
       /\ pi' = TRUE
       /\ ret' = IF nrad = 1 THEN Exited ELSE Returned(0)
       /\ UNCHANGED <<first, res>>
  /\ UNCHANGED <<inputs, file, saved, wk, arg>>

(***************************************************************************)
(* freemem_extinction(ex, pi): the three arrays are freed and the          *)
(* TRPI_EXTWN bit is cleared.                                              *)
(***************************************************************************)
freemem_extinction ==
  /\ Running /\ alloc
  /\ op' = Did("freemem_extinction", -1)
  /\ e' = << >>
  /\ eden' = << >>
  /\ computed' = << >>
  /\ alloc' = FALSE
  /\ pi' = FALSE
  /\ first' = [r \in DOMAIN first |-> NoRow]
  /\ ret' = Returned(0)
  /\ UNCHANGED <<inputs, file, saved, wk, arg, res>>


(***************************************************************************)
(* getprofile(pr, dwn, dop, lor, ta, nwave), dw here.  wvgt/dwn + 0.5 is   *)
(* cast to long, which truncates toward zero.  voigtn() is not part of     *)
(* this file: vok says whether it returns 1.                               *)
(***************************************************************************)
ProfileBins(dw, dop, lor, t) ==
  LET bigalpha == IF dop < lor THEN lor ELSE dop
      wvgt     == bigalpha * t
  IN  2 * CDiv(2*wvgt + dw, 2*dw) + 1

(* A clamp without the floor of three points. *)
ClampNoFloor(n, nwave) == IF n > 2*nwave THEN 2*nwave + 1 ELSE n

ProfileClamp(n, nwave) ==
  LET n1 == IF n < 2 THEN 3 ELSE n
  IN  IF n1 > 2*nwave THEN 2*nwave + 1 ELSE n1

getprofile(dw, dop, lor, t, nwave, vok) ==
  LET nvgt0 == ProfileBins(dw, dop, lor, t)
      nvgt  == ProfileClamp(nvgt0, nwave)
  IN  IF nvgt < 0
        THEN [how |-> "critical", err |-> "bins", nvgt0 |-> nvgt0, nvgt |-> nvgt,
              allocated |-> FALSE, half |-> 0]
      ELSE IF ~vok
        THEN [how |-> "critical", err |-> "voigtn", nvgt0 |-> nvgt0, nvgt |-> nvgt,
              allocated |-> TRUE, half |-> 0]
      ELSE [how |-> "return", err |-> "", nvgt0 |-> nvgt0, nvgt |-> nvgt,
            allocated |-> TRUE, half |-> CDiv(nvgt, 2)]

(***************************************************************************)
(* The wavenumber sampling.  wns.v[0] = wns.i; the oversampled array owns  *)
(* has owns.o points per output interval and spacing odwn.                 *)
(***************************************************************************)
Wnso  == 4            \* tr->owns.o
WnsI  == 2 * odwn     \* tr->wns.i
onwn  == (nwn - 1) * Wnso + 1

(* tr->wns.d/tr->wns.o when tr->wns.d is the spacing of tr->wns.v and     *)
(* tr->wns.o is 1; it is odwn when tr->wns has the d and the o of tr->owns. *)
OutDwn == Wnso * odwn

(* tr->owns.v[k]; k = onwn is one past the end of the array. *)
OwnsV(k) == IF k < onwn THEN WnsI + k * odwn ELSE junk

(* tr->odivs: the divisors of the oversampling factor, ascending. *)
RECURSIVE DivisorsFrom(_, _)
DivisorsFrom(d, n) ==
  IF d > n THEN << >>
  ELSE IF n % d = 0 THEN <<d>> \o DivisorsFrom(d+1, n) ELSE DivisorsFrom(d+1, n)
odivs == DivisorsFrom(1, Wnso)
ndivs == Len(odivs)

(***************************************************************************)
(* The profile cache op->profile, op->profsize over the width samples      *)
(* op->aDop and op->aLor.                                                  *)
(***************************************************************************)
aDop == <<1, 3>>
aLor == <<1, 4>>
nDop == Len(aDop)
nLor == Len(aLor)

(* binsearchapprox(arr, val, lo, hi) with val = num/den: the index of the *)
(* sample at or below val, clamped to lo .. hi-1.                          *)
binsearchapprox(arr, num, den, lo, hi) ==
  LET below == {k \in lo .. hi-1 : arr[k+1] * den <= num}
  IN  IF below = {} THEN lo ELSE CHOOSE k \in below : \A k2 \in below : k2 <= k

profsize(a, b) == getprofile(odwn, aDop[a+1], aLor[b+1], ta, onwn, TRUE).half

(* voigtn(): a line shape that peaks at the centre and is symmetric. *)
Voigt(p, k) == p + 1 - Abs(k - p)

(* profile[a][b][idx]; outside 0 .. 2*profsize the read leaves the array. *)
ProfileAt(a, b, idx) ==
  LET p == profsize(a, b)
  IN  IF 0 <= idx /\ idx <= 2*p THEN Voigt(p, idx) ELSE junk

(***************************************************************************)
(* The layer and its lines.                                                *)
(***************************************************************************)
nlines  == Len(lines)
Line(ln) == lines[ln + 1]

(* mol->molec[].d[r]: the density of the layer. *)
Density(r) == r + 1

(* alphal[i] and alphad[i]*wn[0] of layer r. *)
AlphaL(r, i) == width[i].lor * Density(r)
AlphaD0(r, i) == width[i].dop

RECURSIVE MinWidthFrom(_, _, _)
MinWidthFrom(r, i, minwidth) ==
  IF i >= niso THEN minwidth
  ELSE LET maxwidth == Max(AlphaL(r, i), AlphaD0(r, i))
       IN  MinWidthFrom(r, i+1, Min(minwidth, maxwidth))

MinWidth(r) == MinWidthFrom(r, 0, 100000)

(* for (i=1; i<ndivs; i++) if (odivs[i]*(dwn/owns.o) >= 0.5*minwidth) break; *)
(* divs is the candidate list tr->odivs (C index k is element k+1); the   *)
(* value is the i at which the loop ends.                                  *)
RECURSIVE DivBreakIn(_, _, _)
DivBreakIn(divs, i, minwidth) ==
  IF i >= Len(divs) THEN i
  ELSE IF 2 * divs[i+1] * dwn >= minwidth * Wnso THEN i
  ELSE DivBreakIn(divs, i+1, minwidth)


(* A choice that always takes the last candidate. *)
OfactorLast(divs, minwidth) == divs[Len(divs)]

(* ofactor = tr->odivs[i-1] *)
OfactorIn(divs, minwidth) == divs[DivBreakIn(divs, 1, minwidth)]

Ofactor(r) == OfactorIn(odivs, MinWidth(r))
Dnwn(r)    == 1 + (onwn - 1) \div Ofactor(r)

(* A range test without its upper end. *)
InRangeNoUpper(wavn) == ~(wavn < WnsI)

InRange(wavn) == ~(wavn < WnsI) /\ ~(wavn > OwnsV(onwn - 1))

(* propto_k of line ln in layer r. *)
ProptoK(r, ln) == Density(r) * Line(ln).gf

RECURSIVE KmaxFrom(_, _, _)
KmaxFrom(r, ln, kmax) ==
  IF ln >= nlines THEN kmax
  ELSE IF ~InRange(Line(ln).wavn) THEN KmaxFrom(r, ln+1, kmax)
  ELSE KmaxFrom(r, ln+1, IF kmax = 0 THEN ProptoK(r, ln)
                         ELSE Max(kmax, ProptoK(r, ln)))

Kmax(r) == KmaxFrom(r, 0, 0)

(* Index of the closest oversampled wavenumber. *)
Iown(wavn) ==
  LET i0 == (wavn - WnsI) \div odwn
  IN  IF Abs(wavn - OwnsV(i0 + 1)) < Abs(wavn - OwnsV(i0)) THEN i0 + 1 ELSE i0

(* A co-adding loop that takes iown again from every line it co-adds. *)
RECURSIVE MergeEndNearest(_, _, _)
MergeEndNearest(ln, i, iown) ==
  IF    ln # nlines - 1
     /\ Line(ln + 1).isoid = i
     /\ Abs(Line(ln + 1).wavn - OwnsV(iown)) < odwn
  THEN MergeEndNearest(ln + 1, i, Iown(Line(ln + 1).wavn))
  ELSE ln

(* The last line that the while loop co-adds into line ln. *)
RECURSIVE MergeEnd(_, _, _)
MergeEnd(ln, i, iown) ==
  IF    ln # nlines - 1
     /\ Line(ln + 1).isoid = i
     /\ Abs(Line(ln + 1).wavn - OwnsV(iown)) < odwn
  THEN MergeEnd(ln + 1, i, iown)
  ELSE ln

RECURSIVE SumK(_, _, _)
SumK(r, from, to) ==
  IF from > to THEN 0 ELSE ProptoK(r, from) + SumK(r, from + 1, to)

EthreshDen == 4

(* A threshold that also skips a strength equal to it. *)
TooWeakOrEqual(k, kmax) == k * EthreshDen <= ethresh * kmax

(* if (propto_k < ex->ethresh * kmax) *)
TooWeak(k, kmax) == k * EthreshDen < ethresh * kmax


(* Width indices of isotope i before any line is read. *)
Idop0(r) == [i \in 0 .. niso-1 |-> binsearchapprox(aDop, AlphaD0(r, i), 1, 0, nDop)]
Ilor(r, i) == binsearchapprox(aLor, AlphaL(r, i), 1, 0, nLor)

(* if (alphad[i]*wavn/alphal[i] >= 1e-1) idop[i] = binsearchapprox(...)   *)
Rebin(r, i, wavn, idop) ==
  IF 10 * AlphaD0(r, i) * wavn >= AlphaL(r, i) * WnsI
    THEN binsearchapprox(aDop, AlphaD0(r, i) * wavn, WnsI, 0, nDop)
    ELSE idop

(* subw, offset, minj and maxj of a line with dynamic index idwn and       *)
(* oversampled index iown, for a profile of half-size p.                   *)
Window(idwn, iown, p, ofactor, dnwn) ==
  LET subw    == iown - idwn * ofactor
      offset  == ofactor * idwn - p + subw
      minj0   == idwn - CDiv(p - subw, ofactor)
      maxj0   == idwn + CDiv(p + subw, ofactor)
  IN  [subw |-> subw, offset |-> offset,
       minj |-> IF minj0 < 0 THEN 0 ELSE minj0,
       maxj |-> IF maxj0 > dnwn THEN dnwn ELSE maxj0]

(* idwn = (wavn - tr->wns.i)/ddwn *)
Idwn(r, wavn) == (wavn - WnsI) \div (odwn * Ofactor(r))

(* The accumulation of one evaluated line into ktmp. *)
AddProfile(ktmp, r, k, wavn, iown, a, b) ==
  LET ofactor == Ofactor(r)
      win     == Window(Idwn(r, wavn), iown, profsize(a, b), ofactor, Dnwn(r))
  IN  [j \in DOMAIN ktmp |->
         IF win.minj <= j /\ j < win.maxj
           THEN ktmp[j] + k * ProfileAt(a, b, ofactor * j - win.offset)
           ELSE ktmp[j]]

(***************************************************************************)
(* The second loop over the lines.  st holds the locals that the loop      *)
(* carries: ktmp, idop, the three tallies, and for every line what the     *)
(* loop did with it.                                                       *)
(***************************************************************************)
(* A record of the loop that leaves out the lines it co-adds. *)
MarkHeadOnly(cls, from, to, head, rest) ==
  [l \in DOMAIN cls |-> IF l = from THEN [c |-> head, head |-> from] ELSE cls[l]]

Mark(cls, from, to, head, rest) ==
  [l \in DOMAIN cls |-> IF l = from THEN [c |-> head, head |-> from]
                        ELSE IF from < l /\ l <= to THEN [c |-> rest, head |-> from]
                        ELSE cls[l]]

RECURSIVE Pass2(_, _, _)
Pass2(r, ln, st) ==
  IF ln >= nlines THEN st
  ELSE
    LET wavn == Line(ln).wavn
        i    == Line(ln).isoid
    IN  IF ~InRange(wavn)
          THEN Pass2(r, ln + 1, [st EXCEPT !.cls = Mark(st.cls, ln, ln, "out", "out")])
        ELSE
          LET iown == Iown(wavn)
              last == MergeEnd(ln, i, iown)
              k    == SumK(r, ln, last)
              nadd == st.nadd + (last - ln)
          IN  IF TooWeak(k, Kmax(r))
                THEN Pass2(r, last + 1,
                           [st EXCEPT !.nadd = nadd, !.nskip = st.nskip + 1,
                              !.cls = Mark(st.cls, ln, last, "skipped", "added")])
              ELSE
                LET a == Rebin(r, i, wavn, st.idop[i])
                    b == Ilor(r, i)
                IN  Pass2(r, last + 1,
                          [st EXCEPT !.nadd = nadd, !.neval = st.neval + 1,
                             !.idop = [st.idop EXCEPT ![i] = a],
                             !.ktmp = AddProfile(st.ktmp, r, k, wavn, iown, a, b),
                             !.cls = Mark(st.cls, ln, last, "evaluated", "added")])

(* The locals of computemolext before the second loop: ktmp is calloc'ed. *)
Locals(r) ==
  [ktmp  |-> [j \in 0 .. onwn - 1 |-> 0],
   idop  |-> Idop0(r),
   nadd  |-> 0, nskip |-> 0, neval |-> 0,
   cls   |-> [l \in 0 .. nlines - 1 |-> [c |-> "none", head |-> l]]]

Accumulate(r) == Pass2(r, 0, Locals(r))

(***************************************************************************)
(* downsample(input, out, n, scale): out[k] gathers the scale input points *)
(* around point k*scale; with an even scale the two end points of the      *)
(* window count half.  Values are in units of 1/(2*scale).                 *)
(***************************************************************************)
RECURSIVE WindowSum(_, _, _, _, _)
WindowSum(input, n, c, h, d) ==
  IF d > h THEN 0
  ELSE LET j == c + d
           w == IF Abs(d) = h THEN 1 ELSE 2
       IN  (IF 0 <= j /\ j < n THEN w * input[j] ELSE 0)
           + WindowSum(input, n, c, h, d + 1)

downsample(input, n, scale) ==
  LET m    == 1 + (n - 1) \div scale
      even == scale % 2 = 0
      h    == scale \div 2
  IN  [k \in 0 .. m - 1 |->
         IF even THEN WindowSum(input, n, k * scale, h, -h)
         ELSE 2 * SumTo([d \in 0 .. scale - 1 |->
                           LET j == k * scale - h + d
                           IN  IF 0 <= j /\ j < n THEN input[j] ELSE 0], scale)]

(* A row added to what kiso[r] holds instead of replacing it. *)
DownsampledAdded(r, ktmp) ==
  LET out == downsample(ktmp, Dnwn(r), Wnso \div Ofactor(r))
  IN  [i \in DOMAIN out |-> At(e, r, i) + out[i]]

(* The row that computemolext(tr, r, kiso) leaves in kiso[r]:               *)
(* downsample(ktmp, kiso[r], dnwn, tr->owns.o/ofactor).                    *)
Downsampled(r, ktmp) == downsample(ktmp, Dnwn(r), Wnso \div Ofactor(r))

(* What the run prints about the second loop, and what each line became. *)
Tallied(st) ==
  [f |-> "computemolext", nadd |-> st.nadd, nskip |-> st.nskip,
   neval |-> st.neval, cls |-> st.cls]

(* kiso with the values of out written over the start of row r. *)
WriteRow(grid, r, out) ==
  [q \in DOMAIN grid |->
     IF (q - r * nwn) \in DOMAIN out THEN out[q - r * nwn] ELSE grid[q]]

(* A flag flipped instead of set. *)
FlipFlag(c, r) == [c EXCEPT ![r] = ~c[r]]

SetFlag(c, r) == [c EXCEPT ![r] = TRUE]

(* computemolext(tr, r, kiso).  mem says whether the five calloc calls of   *)
(* the function (ktmp, alphal, alphad, idop, ilor) all give an array: none *)
(* of the results is looked at, and a NULL one ends the process at its     *)
(* first use, before the row is written.  With ex->computed NULL the       *)
(* store of the flag, after the row is written, ends the process.          *)
computemolext(r, mem) ==
  /\ Running /\ alloc
  /\ r \in Layers
  /\ op' = Did("computemolext", r)
  /\ IF ~mem \/ NoFlags
       THEN Dead
       ELSE /\ \E st \in {Accumulate(r)} :
                 /\ \E out \in {Downsampled(r, st.ktmp)} :
                      /\ e' = WriteRow(e, r, out)
                      /\ eden' = WriteRow(eden, r, [i \in DOMAIN out |-> 1])
                 /\ res' = Tallied(st)
            /\ computed' = SetFlag(computed, r)
            /\ ret' = Returned(0)
            /\ first' = IF first[r].ok THEN [first EXCEPT ![r].again = TRUE]
                        ELSE [first EXCEPT ![r] = [ok |-> TRUE, again |-> FALSE,
                                                   row |-> Row(e', r)]]
            /\ UNCHANGED <<pi, alloc>>
  /\ UNCHANGED <<inputs, file, saved, wk, arg>>


(***************************************************************************)
(* interpolmolext(tr, r, kiso): the opacity grid op->o over the            *)
(* temperatures op->temp, for the molecules op->molID.                     *)
(***************************************************************************)
gtemp == <<2, 4, 8>>
Ntemp == Len(gtemp)
molID == <<0>>
Nmol  == Len(molID)
Nwave == nwn

(* gtemp[t]; outside 0 .. Ntemp-1 the read leaves the array. *)
Gtemp(t) == IF 0 <= t /\ t < Ntemp THEN gtemp[t + 1] ELSE junk

InTable(t) == 0 <= t /\ t < Ntemp

(* op->o[m][t][r][i].  Outside 0 .. Ntemp-1 the pointer op->o[m][t] is     *)
(* whatever lies beside the array of pointers: following it either ends    *)
(* the process (see interpolmolext) or finds junk.                         *)
Opacity(m, t, r, i) ==
  IF InTable(t) THEN gtemp[t + 1] * (m + 1) + i ELSE junk

Itemp(r) ==
  LET it == binsearchapprox(gtemp, temp[r], 1, 0, Ntemp)
  IN  IF temp[r] < Gtemp(it) THEN it - 1 ELSE it

(* ext, lines 656-658: a quotient of doubles. *)
InterpExt(m, r, i) ==
  LET it  == Itemp(r)
      den == Gtemp(it + 1) - Gtemp(it)
      num == Opacity(m, it, r, i) * (Gtemp(it + 1) - temp[r])
             + Opacity(m, it + 1, r, i) * (temp[r] - Gtemp(it))
  IN  Quot(num, den)

RECURSIVE InterpolSum(_, _, _)
(* The sum over the first n molecules of d[r] * ext. *)
InterpolSum(r, i, n) ==
  IF n <= 0 THEN Quot(0, 1)
  ELSE QAdd(InterpolSum(r, i, n - 1), QMul(Quot(Density(r), 1), InterpExt(n - 1, r, i)))

InterpolAdd(r, i) == InterpolSum(r, i, Nmol)

(* kiso[r][i] as a fraction. *)
Kiso(grid, r, i) == [n |-> At(grid, r, i), d |-> At(eden, r, i)]

(* A row that replaces what kiso[r] holds. *)
InterpolRowOverwrite(grid, r) == [i \in 0 .. Nwave - 1 |-> InterpolAdd(r, i)]

InterpolRow(grid, r) ==
  [i \in 0 .. Nwave - 1 |-> QAdd(Kiso(grid, r, i), InterpolAdd(r, i))]

(* The reads of op->o[m][itemp] and op->o[m][itemp+1] stay in the table. *)
TableReadsOk(r) == InTable(Itemp(r)) /\ InTable(Itemp(r) + 1)

(* interpolmolext(tr, r, kiso).  segv: a pointer read from outside         *)
(* op->o[m] is followed into memory that is not the process's.  With       *)
(* ex->computed NULL the store of the flag ends the process.  The row is   *)
(* taken no further once a value in it is above MaxVal.                    *)
interpolmolext(r) ==
  /\ Running /\ alloc
  /\ r \in Layers
  /\ \A i \in 0 .. Nwave - 1 : ~QLess(Quot(MaxVal, 1), Kiso(e, r, i))
  /\ op' = Did("interpolmolext", r)
  /\ \E segv \in (IF TableReadsOk(r) THEN {FALSE} ELSE BOOLEAN) :
       IF segv \/ NoFlags
         THEN Dead
       ELSE /\ e' = WriteRow(e, r, [i \in 0 .. Nwave - 1 |-> InterpolRow(e, r)[i].n])
            /\ eden' = WriteRow(eden, r, [i \in 0 .. Nwave - 1 |-> InterpolRow(e, r)[i].d])
            /\ computed' = SetFlag(computed, r)
            /\ ret' = Returned(0)
            /\ UNCHANGED <<pi, alloc, first, res>>
  /\ UNCHANGED <<inputs, file, saved, wk, arg>>


(***************************************************************************)
(* The run: the extinction structure from its allocation on.               *)
(***************************************************************************)
NoSave == [ok |-> FALSE, e |-> << >>, c |-> << >>]
Idle   == [busy |-> FALSE]

(* The savefiles a run may find on disk. *)
FoundFiles(nr, nw) ==
  LET body == SavedBytes([q \in 0 .. nr*nw - 1 |-> 1], [r \in 0 .. nr - 1 |-> TRUE], nr, nw)
  IN  { [exists |-> FALSE, bytes |-> << >>],
        [exists |-> TRUE,  bytes |-> <<64, 69, 64>>],
        [exists |-> TRUE,  bytes |-> <<64, 69, 64, 83, 65>> \o Drop(body, 5)],
        [exists |-> TRUE,  bytes |-> body],
        [exists |-> TRUE,
         bytes |-> SavedBytes([q \in 0 .. nr*nw - 1 |-> 2], [r \in 0 .. nr - 1 |-> FALSE], nr, nw)],
        [exists |-> TRUE,  bytes |-> SubSeq(body, 1, Len(body) - nr - 1)] }

LineAt(w, i, g) == [wavn |-> w, isoid |-> i, gf |-> g]

(* The line lists of the run: none, one line, two lines of one bin. *)
RunLines == { << >>,
              <<LineAt(WnsI + odwn, 0, 1)>>,
              <<LineAt(WnsI - 1, 0, 3), LineAt(WnsI + 2 * odwn, 0, 2),
                LineAt(WnsI + 2 * odwn + 1, 0, 1)>> }

Init ==
  /\ odwn = GridOdwn
  /\ dwn = OutDwn
  /\ op = Did("init", -1)
  /\ ret = Returned(0)
  /\ nrad \in 0 .. MaxRad
  /\ nwn \in 1 .. MaxWn
  /\ niso \in 0 .. 1
  /\ pi = FALSE
  /\ alloc = FALSE
  /\ e = << >>
  /\ eden = << >>
  /\ computed = << >>
  /\ file \in FoundFiles(nrad, nwn)
  /\ saved = NoSave
  /\ first = [r \in 0 .. nrad - 1 |-> NoRow]
  /\ lines \in RunLines
  /\ ethresh = 0
  /\ width = [i \in 0 .. niso - 1 |-> [lor |-> 1, dop |-> 1]]
  /\ ta = 2
  /\ temp = [r \in 0 .. nrad - 1 |-> 3]
  /\ junk = 0
  /\ wk = Idle
  /\ arg = NoArg
  /\ res = NoArg

Next ==
  \/ \E mem \in 0 .. 3, out \in BOOLEAN : extwn(mem, out)
  \/ freemem_extinction
  \/ \E opened \in BOOLEAN : savefile_extinct(opened)
  \/ \E opened \in BOOLEAN : restfile_extinct(opened)
  \/ \E r \in 0 .. MaxRad - 1, mem \in BOOLEAN : computemolext(r, mem)
  \/ \E r \in 0 .. MaxRad - 1 : interpolmolext(r)

Spec == Init /\ [][Next]_vars

(***************************************************************************)
(* Saving and restoring an allocated structure whose grid holds values of  *)
(* one and of two bytes and whose flags are any; computemolext changes     *)
(* rows and flags between a save and a restore.                            *)
(***************************************************************************)
InitFile ==
  /\ odwn = GridOdwn
  /\ dwn = OutDwn
  /\ op = Did("init", -1)
  /\ ret = Returned(0)
  /\ nrad \in 2 .. MaxRad
  /\ nwn \in 2 .. MaxWn
  /\ niso = 1
  /\ pi = TRUE
  /\ alloc = TRUE
  /\ e = [q \in Cells |-> 250 + 3 * q]
  /\ eden = [q \in Cells |-> 1]
  /\ computed \in [Layers -> BOOLEAN]
  /\ file = [exists |-> FALSE, bytes |-> << >>]
  /\ saved = NoSave
  /\ first = [r \in Layers |-> NoRow]
  /\ lines = <<LineAt(WnsI + odwn, 0, 1)>>
  /\ ethresh = 0
  /\ width = [i \in 0 .. niso - 1 |-> [lor |-> 1, dop |-> 1]]
  /\ ta = 2
  /\ temp = [r \in Layers |-> 3]
  /\ junk = 0
  /\ wk = Idle
  /\ arg = NoArg
  /\ res = NoArg

NextFile ==
  \/ \E opened \in BOOLEAN : savefile_extinct(opened)
  \/ \E opened \in BOOLEAN : restfile_extinct(opened)
  \/ \E r \in 0 .. MaxRad - 1, mem \in BOOLEAN : computemolext(r, mem)

SpecFile == InitFile /\ [][NextFile]_vars


(***************************************************************************)
(* The layer computation over every short line list: lines sorted by       *)
(* wavenumber, below, inside, at the end of and beyond the sampled range.  *)
(***************************************************************************)
MaxLines == 3

LastWn == WnsI + (MaxWn - 1) * Wnso * odwn

LineWavns == {WnsI - 1, WnsI + odwn, WnsI + odwn + 1, WnsI + 3 * odwn, LastWn, LastWn + 1}

LineDomain ==
     {LineAt(w, 0, 1) : w \in LineWavns}
  \cup {LineAt(w, 0, 4) : w \in {WnsI + odwn, LastWn}}
  \cup {LineAt(w, 1, 1) : w \in {WnsI + odwn, WnsI + odwn + 1}}

LineLists ==
  {s \in UNION {[1 .. n -> LineDomain] : n \in 0 .. MaxLines} :
     \A k \in 1 .. Len(s) - 1 : s[k].wavn <= s[k+1].wavn}

(* Widths of the two isotopes, the times-of-alpha of the profile cache and  *)
(* tr->wns.d/tr->wns.o: narrow lines, whose factor is odivs[0] whatever    *)
(* the spacing; mixed lines with the factors 2 and 4; wide lines with      *)
(* short profiles and the factors 4 and 4 under the spacing odwn, 1 and 2  *)
(* under the spacing of the output array.                                  *)
LayerSetups ==
  { [ta |-> 2, dwn |-> OutDwn, width |-> [i \in {0, 1} |-> [lor |-> 1, dop |-> 1]]],
    [ta |-> 2, dwn |-> odwn,
     width |-> [i \in {0, 1} |-> IF i = 0 THEN [lor |-> 3, dop |-> 2]
                                           ELSE [lor |-> 4, dop |-> 1]]],
    [ta |-> 1, dwn |-> odwn,   width |-> [i \in {0, 1} |-> [lor |-> 6, dop |-> 3]]],
    [ta |-> 1, dwn |-> OutDwn, width |-> [i \in {0, 1} |-> [lor |-> 6, dop |-> 3]]] }

(* The state that extwn leaves, for two layers and two isotopes. *)
InitMolext ==
  /\ odwn = GridOdwn
  /\ op = Did("extwn", -1)
  /\ ret = Returned(0)
  /\ nrad = 2
  /\ nwn = MaxWn
  /\ niso = 2
  /\ pi = TRUE
  /\ alloc = TRUE
  /\ e = [q \in Cells |-> 0]
  /\ eden = [q \in Cells |-> 1]
  /\ computed = [r \in Layers |-> FALSE]
  /\ file = [exists |-> FALSE, bytes |-> << >>]
  /\ saved = NoSave
  /\ first = [r \in Layers |-> NoRow]
  /\ lines \in LineLists
  /\ ethresh \in {0, 3, 8}
  /\ \E su \in LayerSetups : width = su.width /\ ta = su.ta /\ dwn = su.dwn
  /\ temp = [r \in Layers |-> 3]
  /\ junk \in {0, 7}
  /\ wk = Idle
  /\ arg = NoArg
  /\ res = NoArg

NextMolext == \E r \in 0 .. 1, mem \in BOOLEAN : computemolext(r, mem)

SpecMolext == InitMolext /\ [][NextMolext]_vars

(***************************************************************************)
(* The co-adding loop on a grid of spacing MergeOdwn: the lines of one     *)
(* isotope lie at a point of the oversampled grid and at every unit up to  *)
(* the next point, so that a line nearer to the next point is within odwn  *)
(* of the point of its head, and the line after it is not; the lines of    *)
(* the other isotope lie at the two points.                                *)
(***************************************************************************)
MergeOdwn == 3
MaxMerge  == 4

MergeDomain ==
     {LineAt(WnsI + odwn + d, 0, 1) : d \in 0 .. odwn}
  \cup {LineAt(WnsI + odwn + d, 1, 1) : d \in {0, odwn}}

MergeLists ==
  {s \in UNION {[1 .. n -> MergeDomain] : n \in 0 .. MaxMerge} :
     \A k \in 1 .. Len(s) - 1 : s[k].wavn <= s[k+1].wavn}

InitMerge ==
  /\ odwn = MergeOdwn
  /\ dwn = OutDwn
  /\ op = Did("extwn", -1)
  /\ ret = Returned(0)
  /\ nrad = 2
  /\ nwn = 2
  /\ niso = 2
  /\ pi = TRUE
  /\ alloc = TRUE
  /\ e = [q \in Cells |-> 0]
  /\ eden = [q \in Cells |-> 1]
  /\ computed = [r \in Layers |-> FALSE]
  /\ file = [exists |-> FALSE, bytes |-> << >>]
  /\ saved = NoSave
  /\ first = [r \in Layers |-> NoRow]
  /\ lines \in MergeLists
  /\ ethresh \in {0, 3}
  /\ width = [i \in {0, 1} |-> [lor |-> 1, dop |-> 1]]
  /\ ta = 2
  /\ temp = [r \in Layers |-> 3]
  /\ junk = 7
  /\ wk = Idle
  /\ arg = NoArg
  /\ res = NoArg

NextMerge == \E r \in 0 .. 1, mem \in BOOLEAN : computemolext(r, mem)

SpecMerge == InitMerge /\ [][NextMerge]_vars

(***************************************************************************)
(* The layer computation of a three-layer atmosphere with one isotope and  *)
(* one line, nothing culled: the line anywhere on the sampled range, with  *)
(* wide and with short cached profiles.                                    *)
(***************************************************************************)
OneSetups ==
  { [ta |-> 3, width |-> [i \in {0} |-> [lor |-> 1, dop |-> 1]]],
    [ta |-> 3, width |-> [i \in {0} |-> [lor |-> 1, dop |-> 3]]],
    [ta |-> 2, width |-> [i \in {0} |-> [lor |-> 6, dop |-> 1]]],
    [ta |-> 1, width |-> [i \in {0} |-> [lor |-> 6, dop |-> 1]]] }

InitOne ==
  /\ odwn = GridOdwn
  /\ dwn \in {odwn, OutDwn}
  /\ op = Did("extwn", -1)
  /\ ret = Returned(0)
  /\ nrad = MaxRad + 1
  /\ nwn = MaxWn + 2
  /\ niso = 1
  /\ pi = TRUE
  /\ alloc = TRUE
  /\ e = [q \in Cells |-> 0]
  /\ eden = [q \in Cells |-> 1]
  /\ computed = [r \in Layers |-> FALSE]
  /\ file = [exists |-> FALSE, bytes |-> << >>]
  /\ saved = NoSave
  /\ first = [r \in Layers |-> NoRow]
  /\ \E w \in WnsI .. WnsI + (MaxWn + 1) * Wnso * odwn : lines = <<LineAt(w, 0, 1)>>
  /\ ethresh = 0
  /\ \E su \in OneSetups : width = su.width /\ ta = su.ta
  /\ temp = [r \in Layers |-> 3]
  /\ junk \in {0, 7}
  /\ wk = Idle
  /\ arg = NoArg
  /\ res = NoArg

NextOne == \E r \in Layers, mem \in BOOLEAN : computemolext(r, mem)

SpecOne == InitOne /\ [][NextOne]_vars

(***************************************************************************)
(* Two layer computations side by side.  Each worker runs computemolext or *)
(* interpolmolext once, on a layer of its own, one statement group at a    *)
(* time: the loops over the lines fill the worker's own ktmp, downsample   *)
(* writes kiso[r], kiso[r][i] += ... reads and then writes one element,    *)
(* and the last statement sets ex->computed[r].                            *)
(***************************************************************************)
Workers == {1, 2}

Resting == [pc |-> "idle", f |-> "none", r |-> -1, ktmp |-> << >>, i |-> 0, tmp |-> Quot(0, 1)]

(* A worker of a process that a signal has ended. *)
Ended == [Resting EXCEPT !.pc = "done"]

(* Every worker on row 0. *)
RowZero(w) == 0

(* The row of kiso that worker w writes, and the flag it sets. *)
RowOf(w) == wk[w].r

(* The entry of a call; mem as in computemolext: a NULL array ends the     *)
(* process, and every worker with it, in the loop over the isotopes.       *)
Start(w, f, r, mem) ==
  /\ wk[w].pc = "idle"
  /\ r \in Layers
  /\ \A w2 \in Workers : wk[w2].r # r
  /\ IF f = "computemolext" /\ ~mem
       THEN /\ Dead
            /\ wk' = [v \in Workers |-> Ended]
       ELSE /\ wk' = [wk EXCEPT ![w] = [pc |-> IF f = "computemolext" THEN "lines" ELSE "read",
                                        f |-> f, r |-> r,
                                        ktmp |-> [j \in 0 .. onwn - 1 |-> 0],
                                        i |-> 0, tmp |-> Quot(0, 1)]]
            /\ UNCHANGED <<ret, pi, alloc, e, eden, computed, first, res>>
  /\ UNCHANGED <<op, inputs, file, saved, arg>>

(* computemolext, lines 482-599: both loops over the lines. *)
CmLines(w) ==
  /\ wk[w].pc = "lines"
  /\ wk' = [wk EXCEPT ![w].ktmp = Accumulate(wk[w].r).ktmp, ![w].pc = "down"]
  /\ UNCHANGED <<op, ret, inputs, pi, alloc, e, eden, computed, file, saved, first, arg, res>>

(* computemolext, line 602: downsample(ktmp, kiso[r], dnwn, owns.o/ofactor). *)
CmDownsample(w) ==
  /\ wk[w].pc = "down"
  /\ LET out == Downsampled(wk[w].r, wk[w].ktmp)
     IN  /\ e' = WriteRow(e, RowOf(w), out)
         /\ eden' = WriteRow(eden, RowOf(w), [i \in DOMAIN out |-> 1])
  /\ wk' = [wk EXCEPT ![w].pc = "flag"]
  /\ UNCHANGED <<op, ret, inputs, pi, alloc, computed, file, saved, first, arg, res>>

(* interpolmolext, line 662: the read of kiso[r][i] ... *)
ImRead(w) ==
  /\ wk[w].pc = "read"
  /\ wk' = [wk EXCEPT ![w].tmp = Kiso(e, RowOf(w), wk[w].i), ![w].pc = "write"]
  /\ UNCHANGED <<op, ret, inputs, pi, alloc, e, eden, computed, file, saved, first, arg, res>>

(* ... and the write of kiso[r][i], then i++; segv as in interpolmolext. *)
ImWrite(w) ==
  /\ wk[w].pc = "write"
  /\ \E segv \in (IF TableReadsOk(wk[w].r) THEN {FALSE} ELSE BOOLEAN) :
       IF segv
         THEN /\ Dead
              /\ wk' = [v \in Workers |-> Ended]
       ELSE LET sum == QAdd(wk[w].tmp, InterpolAdd(wk[w].r, wk[w].i))
            IN  /\ e' = [e EXCEPT ![RowOf(w) * nwn + wk[w].i] = sum.n]
                /\ eden' = [eden EXCEPT ![RowOf(w) * nwn + wk[w].i] = sum.d]
                /\ wk' = [wk EXCEPT ![w].i = wk[w].i + 1,
                                    ![w].pc = IF wk[w].i + 1 < Nwave THEN "read" ELSE "flag"]
                /\ UNCHANGED <<ret, pi, alloc, computed, first, res>>
  /\ UNCHANGED <<op, inputs, file, saved, arg>>

(* ex->computed[r] = 1; return 0; *)
SetComputed(w) ==
  /\ wk[w].pc = "flag"
  /\ computed' = SetFlag(computed, RowOf(w))
  /\ wk' = [wk EXCEPT ![w].pc = "done"]
  /\ UNCHANGED <<op, ret, inputs, pi, alloc, e, eden, file, saved, first, arg, res>>

(* The state that extwn and a restore leave; saved remembers it. *)
InitPar ==
  /\ odwn = GridOdwn
  /\ dwn \in {odwn, OutDwn}
  /\ op = Did("extwn", -1)
  /\ ret = Returned(0)
  /\ nrad = MaxRad + 1
  /\ nwn = MaxWn
  /\ niso = 1
  /\ pi = TRUE
  /\ alloc = TRUE
  /\ e \in {[q \in Cells |-> 0], [q \in Cells |-> 1 + (q % 2)]}
  /\ eden = [q \in Cells |-> 1]
  /\ computed = [r \in Layers |-> FALSE]
  /\ file = [exists |-> FALSE, bytes |-> << >>]
  /\ saved = [ok |-> TRUE, e |-> e, c |-> computed]
  /\ first = [r \in Layers |-> NoRow]
  /\ lines \in RunLines
  /\ ethresh = 0
  /\ width = [i \in 0 .. niso - 1 |-> [lor |-> 1, dop |-> 1]]
  /\ ta = 2
  /\ temp = [r \in Layers |-> 3]
  /\ junk = 0
  /\ wk = [w \in Workers |-> Resting]
  /\ arg = NoArg
  /\ res = NoArg

NextPar ==
  \E w \in Workers :
    \/ \E f \in {"computemolext", "interpolmolext"} : \E r \in 0 .. MaxRad, mem \in BOOLEAN : Start(w, f, r, mem)
    \/ CmLines(w)
    \/ CmDownsample(w)
    \/ ImRead(w)
    \/ ImWrite(w)
    \/ SetComputed(w)

SpecPar == InitPar /\ [][NextPar]_vars

(***************************************************************************)
(* getprofile on its own: one call on arguments drawn from small ranges,   *)
(* widths and times-of-alpha of either sign.                               *)
(***************************************************************************)
MaxWidth == 4
MaxHalf  == 3

ProfileArgs ==
  [f : {"getprofile"}, dwn : 1 .. 3, dop : -2 .. MaxWidth, lor : -2 .. MaxWidth,
   ta : {-1, 0, 1, 3}, nwave : 0 .. MaxHalf]

CallGetProfile(vok) ==
  /\ arg.f = "getprofile" /\ res = NoArg
  /\ res' = [f |-> "getprofile",
             out |-> getprofile(arg.dwn, arg.dop, arg.lor, arg.ta, arg.nwave, vok)]
  /\ ret' = IF res'.out.how = "critical" THEN Critical ELSE ret
  /\ UNCHANGED <<op, inputs, pi, alloc, e, eden, computed, file, saved, first, wk, arg>>

(* Everything that belongs to the extinction structure, unused here. *)
NoRun ==
  /\ odwn = GridOdwn
  /\ op = Did("init", -1)
  /\ ret = Returned(0)
  /\ nrad = 0 /\ nwn = 0 /\ niso = 0
  /\ pi = FALSE /\ alloc = FALSE
  /\ e = << >> /\ eden = << >> /\ computed = << >>
  /\ file = [exists |-> FALSE, bytes |-> << >>]
  /\ saved = NoSave
  /\ first = << >>
  /\ lines = << >>
  /\ ethresh = 0
  /\ width = << >>
  /\ ta = 0
  /\ temp = << >>
  /\ wk = Idle

InitProfile ==
  /\ NoRun
  /\ dwn = OutDwn
  /\ junk = 0
  /\ arg \in ProfileArgs
  /\ res = NoArg

NextProfile == \E vok \in BOOLEAN : CallGetProfile(vok)

SpecProfile == InitProfile /\ [][NextProfile]_vars

(***************************************************************************)
(* The choice of the dynamic-sampling factor on its own: every ascending   *)
(* candidate list of up to three values, every minimum width.              *)
(***************************************************************************)
MaxDiv      == 6
MaxMinWidth == 12

DivLists ==
  {s \in UNION {[1 .. n -> 1 .. MaxDiv] : n \in 1 .. 3} :
     \A k \in 1 .. Len(s) - 1 : s[k] < s[k+1]}

OfactorArgs ==
  [f : {"ofactor"}, odivs : DivLists, minwidth : 0 .. MaxMinWidth, onwn : {5, 9}]

(* ofactor, ddwn and dnwn as computemolext sets them. *)
CallOfactor ==
  /\ arg.f = "ofactor" /\ res = NoArg
  /\ LET ofactor == OfactorIn(arg.odivs, arg.minwidth)
     IN  res' = [f |-> "ofactor", ofactor |-> ofactor,
                 ddwn |-> odwn * ofactor,
                 dnwn |-> 1 + (arg.onwn - 1) \div ofactor]
  /\ UNCHANGED <<op, ret, inputs, pi, alloc, e, eden, computed, file, saved, first, wk, arg>>

InitDiv ==
  /\ NoRun
  /\ dwn \in {odwn, OutDwn}
  /\ junk = 0
  /\ arg \in OfactorArgs
  /\ res = NoArg

NextDiv == CallOfactor

SpecDiv == InitDiv /\ [][NextDiv]_vars

(***************************************************************************)
(* Interpolation of the opacity grid on its own: layer temperatures below, *)
(* on, between and above the tabulated temperatures, on a grid that is     *)
(* zero or already holds values.                                           *)
(***************************************************************************)
TempDomain == {1, 2, 3, 5, 8, 9}

InitInterp ==
  /\ odwn = GridOdwn
  /\ dwn = OutDwn
  /\ op = Did("extwn", -1)
  /\ ret = Returned(0)
  /\ nrad = MaxRad
  /\ nwn = 2
  /\ niso = 1
  /\ pi = TRUE
  /\ alloc = TRUE
  /\ e \in {[q \in Cells |-> 0], [q \in Cells |-> 1 + (q % 2)]}
  /\ eden = [q \in Cells |-> 1]
  /\ computed = [r \in Layers |-> FALSE]
  /\ file = [exists |-> FALSE, bytes |-> << >>]
  /\ saved = [ok |-> TRUE, e |-> e, c |-> computed]
  /\ first = [r \in Layers |-> NoRow]
  /\ lines = << >>
  /\ ethresh = 0
  /\ width = [i \in {0} |-> [lor |-> 1, dop |-> 1]]
  /\ ta = 2
  /\ temp \in [Layers -> TempDomain]
  /\ junk \in {0, 7}
  /\ wk = Idle
  /\ arg = NoArg
  /\ res = NoArg

NextInterp == \E r \in Layers : interpolmolext(r)

SpecInterp == InitInterp /\ [][NextInterp]_vars

(***************************************************************************)
(* Optical depth along a straight path.  rad and ex are the caller's       *)
(* arrays (C index k is element k+1 here).  The closest-approach radius    *)
(* r0 = b/refr is kept exact: the arguments are drawn with refr dividing b.*)
(***************************************************************************)
Elem(arr, n, k) == IF k \in 0 .. n-1 THEN arr[k+1] ELSE junk

(* Index rs with arr[rs] <= val < arr[rs+1]; -5 when val is at or beyond   *)
(* the last element, another negative code when it is below the first.     *)
binsearch(arr, i, f, val) ==
  IF val >= arr[f+1] THEN -5
  ELSE IF val < arr[i+1] THEN -2
  ELSE CHOOSE k \in i .. f-1 : arr[k+1] <= val /\ val < arr[k+2]

(* The parabola through three consecutive samples starting at index base,  *)
(* evaluated at r0.                                                        *)
interp_parab(rad, ex, n, base, r0) ==
  LET x0 == Elem(rad, n, base)    y0 == Elem(ex, n, base)
      x1 == Elem(rad, n, base+1)  y1 == Elem(ex, n, base+1)
      x2 == Elem(rad, n, base+2)  y2 == Elem(ex, n, base+2)
      den == (x0 - x1) * (x0 - x2) * (x1 - x2)
      num == y0 * (r0 - x1) * (r0 - x2) * (x1 - x2)
             - y1 * (r0 - x0) * (r0 - x2) * (x0 - x2)
             + y2 * (r0 - x0) * (r0 - x1) * (x0 - x1)
  IN  Quot(num, den)

(* A ray that is never taken to miss the atmosphere. *)
NeverMisses(rs) == FALSE

(* if ((rs = binsearch(rad, 0, nrad-1, r0)) == -5) return 0; *)
Misses(rs) == rs = -5

(* An array of whole numbers as the doubles it holds. *)
Whole(arr) == [k \in DOMAIN arr |-> Quot(arr[k], 1)]

(* *ex = ...; *rad = r0 on the sample just below the closest approach. *)
Perturb(arr, rs, v) == [arr EXCEPT ![rs+1] = v]

(* A return that leaves the sample as the integration saw it. *)
NoRestore(arr, rs, tmp) == arr

(* *ex = tmpex; *rad = tmprad. *)
Restore(arr, rs, tmp) == [arr EXCEPT ![rs+1] = tmp]

(* The outcome of one call: how it ends, which branch integrated, the      *)
(* value interpolated at r0, the bracketing index rs, the caller's arrays  *)
(* as the integration sees them (radP, exP) and as the call leaves them.   *)
(* The quadrature itself (sqrt, log, spline) is not evaluated: val is 0   *)
(* on a miss and the interpolated extinction otherwise.                    *)
totaltau1(b, rad, refr, ex, n) ==
  LET r0 == b \div refr
      rs == binsearch(rad, 0, n-1, r0)
  IN  IF Misses(rs)
        THEN [how |-> "return", path |-> "miss", val |-> Quot(0, 1), rs |-> rs,
              radP |-> rad, exP |-> Whole(ex), rad |-> rad, ex |-> Whole(ex)]
      ELSE IF rs < 0
        THEN [how |-> "critical", path |-> "range", val |-> Quot(0, 1), rs |-> rs,
              radP |-> rad, exP |-> Whole(ex), rad |-> rad, ex |-> Whole(ex)]
      ELSE
        LET left   == n - rs
            tmpex  == Quot(ex[rs+1], 1)
            tmprad == rad[rs+1]
            fit    == IF left = 2 THEN interp_parab(rad, ex, n, rs-1, r0)
                                  ELSE interp_parab(rad, ex, n, rs, r0)
            exP    == Perturb(Whole(ex), rs, fit)
            radP   == Perturb(rad, rs, r0)
        IN  [how |-> "return", path |-> IF left > 2 THEN "spline" ELSE "tail",
             val |-> fit, rs |-> rs, radP |-> radP, exP |-> exP,
             rad |-> Restore(radP, rs, tmprad), ex |-> Restore(exP, rs, tmpex)]

CallTotalTau1 ==
  /\ arg.f = "totaltau1" /\ res = NoArg
  /\ res' = [f |-> "totaltau1",
             out |-> totaltau1(arg.b, arg.rad, arg.refr, arg.ex, arg.n)]
  /\ ret' = IF res'.out.how = "critical" THEN Critical ELSE ret
  /\ UNCHANGED <<op, inputs, pi, alloc, e, eden, computed, file, saved, first, wk, arg>>

MaxB == 12

(* Equispaced radii 4, 6, ... and three extinction curves over them. *)
TauRad(n) == [k \in 1 .. n |-> 2 + 2*k]
TauEx(n)  == {[k \in 1 .. n |-> 1], [k \in 1 .. n |-> k], [k \in 1 .. n |-> (n - k) * (n - k)]}

TauArgs ==
  {[f |-> "totaltau1", b |-> b, refr |-> refr, n |-> n, rad |-> TauRad(n), ex |-> x] :
     <<b, refr, n, x>> \in
       {q \in (0 .. MaxB) \X (1 .. 2) \X (2 .. MaxRad + 2) \X UNION {TauEx(m) : m \in 2 .. MaxRad + 2} :
          q[1] % q[2] = 0 /\ q[4] \in TauEx(q[3])}}

InitTau ==
  /\ NoRun
  /\ dwn = OutDwn
  /\ junk \in {0, 7}
  /\ arg \in TauArgs
  /\ res = NoArg

NextTau == CallTotalTau1

SpecTau == InitTau /\ [][NextTau]_vars

(***************************************************************************)
(* The doubles of the code.  A PREC_RES is an IEEE 754 binary64 value      *)
(* s * m * 2^e: s is 1 or -1, m a whole number of exactly MantBits bits    *)
(* held as its digits in base LimbBase, lowest first, and zero has no      *)
(* digit.  Every operation gives the exact result rounded to the nearest   *)
(* such value, ties to the even m, as the processor does; the values met   *)
(* here stay far from the largest and the smallest exponent.               *)
(***************************************************************************)
MantBits == 53

RECURSIVE Pow2(_)
Pow2(k) == IF k = 0 THEN 1 ELSE 2 * Pow2(k - 1)

RECURSIVE BitsOf(_)
BitsOf(n) == IF n = 0 THEN 0 ELSE 1 + BitsOf(n \div 2)

(* Digits of 15 bits: the product of two of them stays a 32-bit number. *)
LimbBase == Pow2(15)
LimbBits == BitsOf(LimbBase) - 1

RECURSIVE Digits(_)
Digits(n) == IF n = 0 THEN << >> ELSE <<n % LimbBase>> \o Digits(n \div LimbBase)

RECURSIVE Trim(_)
Trim(a) ==
  IF a = << >> THEN a
  ELSE IF a[Len(a)] = 0 THEN Trim(SubSeq(a, 1, Len(a) - 1))
  ELSE a

Digit(a, k) == IF k <= Len(a) THEN a[k] ELSE 0

RECURSIVE BAddFrom(_, _, _, _)
BAddFrom(a, b, k, c) ==
  IF k > Len(a) /\ k > Len(b) THEN (IF c = 0 THEN << >> ELSE <<c>>)
  ELSE LET t == Digit(a, k) + Digit(b, k) + c
       IN  <<t % LimbBase>> \o BAddFrom(a, b, k + 1, t \div LimbBase)

BAdd(a, b) == BAddFrom(a, b, 1, 0)

RECURSIVE BSubFrom(_, _, _, _)
BSubFrom(a, b, k, c) ==
  IF k > Len(a) THEN << >>
  ELSE LET t == Digit(a, k) - Digit(b, k) - c
       IN  <<IF t < 0 THEN t + LimbBase ELSE t>> \o BSubFrom(a, b, k + 1, IF t < 0 THEN 1 ELSE 0)

(* a - b for a >= b. *)
BSub(a, b) == Trim(BSubFrom(a, b, 1, 0))

RECURSIVE BCmpFrom(_, _, _)
BCmpFrom(a, b, k) ==
  IF k = 0 THEN 0
  ELSE IF a[k] < b[k] THEN -1
  ELSE IF a[k] > b[k] THEN 1
  ELSE BCmpFrom(a, b, k - 1)

BCmp(a, b) ==
  IF Len(a) < Len(b) THEN -1
  ELSE IF Len(a) > Len(b) THEN 1
  ELSE BCmpFrom(a, b, Len(a))

RECURSIVE BTimesFrom(_, _, _, _)
BTimesFrom(a, m, k, c) ==
  IF k > Len(a) THEN (IF c = 0 THEN << >> ELSE <<c>>)
  ELSE LET t == a[k] * m + c
       IN  <<t % LimbBase>> \o BTimesFrom(a, m, k + 1, t \div LimbBase)

(* a times the digit m. *)
BTimes(a, m) == IF m = 0 THEN << >> ELSE BTimesFrom(a, m, 1, 0)

BUp(a, n) == IF a = << >> THEN a ELSE [i \in 1 .. n |-> 0] \o a

RECURSIVE BMulFrom(_, _, _)
BMulFrom(a, b, k) ==
  IF k > Len(b) THEN << >>
  ELSE BAdd(BTimes(a, b[k]), BUp(BMulFrom(a, b, k + 1), 1))

BMul(a, b) == BMulFrom(a, b, 1)

(* a * 2^k. *)
BShl(a, k) == BUp(BTimes(a, Pow2(k % LimbBits)), k \div LimbBits)

RECURSIVE BOverFrom(_, _, _, _)
BOverFrom(a, m, k, r) ==
  IF k = 0 THEN << >>
  ELSE LET t == r * LimbBase + a[k]
       IN  BOverFrom(a, m, k - 1, t % m) \o <<t \div m>>

(* The whole part of a / 2^k. *)
BShr(a, k) ==
  LET d    == k \div LimbBits
      rest == IF d >= Len(a) THEN << >> ELSE SubSeq(a, d + 1, Len(a))
  IN  Trim(BOverFrom(rest, Pow2(k % LimbBits), Len(rest), 0))

BitLen(a) == IF a = << >> THEN 0 ELSE LimbBits * (Len(a) - 1) + BitsOf(a[Len(a)])

BOdd(a) == a # << >> /\ a[1] % 2 = 1

(* The one element of a set of one element: The({F(x) : x \in {v}}) is    *)
(* F(v) with v evaluated once.                                             *)
The(S) == CHOOSE x \in S : TRUE

DZero == [s |-> 1, m |-> << >>, e |-> 0]

(* A quotient by zero: beyond every number. *)
DInf(s) == [s |-> s, m |-> << >>, e |-> 1]

IsZero(a) == a.m = << >> /\ a.e = 0
IsInf(a)  == a.m = << >> /\ a.e = 1

(* s * q * 2^xp for q of MantBits bits, or of one more after a carry. *)
Carried(s, q, xp) ==
  IF BitLen(q) > MantBits THEN [s |-> s, m |-> BShr(q, 1), e |-> xp + 1]
  ELSE [s |-> s, m |-> q, e |-> xp]

(* w = q * 2^k + rest: q goes up when rest is beyond half of 2^k, or is    *)
(* half of it and q is odd.                                                *)
Nearest(s, w, q, xp, k) ==
  The({Carried(s, IF c > 0 \/ (c = 0 /\ BOdd(q)) THEN BAdd(q, <<1>>) ELSE q, xp + k) :
         c \in {BCmp(BSub(w, BShl(q, k)), BShl(<<1>>, k - 1))}})

RoundedTo(s, w, xp, len) ==
  IF len = 0 THEN DZero
  ELSE IF len <= MantBits
    THEN [s |-> s, m |-> BShl(w, MantBits - len), e |-> xp - (MantBits - len)]
  ELSE The({Nearest(s, w, q, xp, len - MantBits) : q \in {BShr(w, len - MantBits)}})

(* s * w * 2^xp, w any whole number, rounded to MantBits bits. *)
Rounded(s, w, xp) == The({RoundedTo(s, x, xp, BitLen(x)) : x \in {w}})

(* (PREC_RES)n of a whole number n. *)
Dbl(n) == Rounded(IF n < 0 THEN -1 ELSE 1, Digits(IF n < 0 THEN -n ELSE n), 0)

DNeg(a) == IF IsZero(a) THEN a ELSE [a EXCEPT !.s = -@]

(* x * 2^xp and y * 2^xp with signs sa and sb, added. *)
Summed(sa, x, sb, y, xp) ==
  IF sa = sb THEN Rounded(sa, BAdd(x, y), xp)
  ELSE IF BCmp(x, y) = 0 THEN DZero
  ELSE IF BCmp(x, y) > 0 THEN Rounded(sa, BSub(x, y), xp)
  ELSE Rounded(sb, BSub(y, x), xp)

Aligned(a, b, xp) ==
  The({Summed(a.s, x, b.s, y, xp) : x \in {BShl(a.m, a.e - xp)}, y \in {BShl(b.m, b.e - xp)}})

Sum(a, b) ==
  IF IsZero(a) THEN b
  ELSE IF IsZero(b) THEN a
  ELSE IF IsInf(a) THEN a
  ELSE IF IsInf(b) THEN b
  ELSE Aligned(a, b, IF a.e < b.e THEN a.e ELSE b.e)

DAdd(x, y) == The({Sum(a, b) : a \in {x}, b \in {y}})

DSub(x, y) == The({Sum(a, DNeg(b)) : a \in {x}, b \in {y}})

Product(a, b) ==
  IF IsZero(a) \/ IsZero(b) THEN DZero
  ELSE IF IsInf(a) \/ IsInf(b) THEN DInf(a.s * b.s)
  ELSE Rounded(a.s * b.s, BMul(a.m, b.m), a.e + b.e)

DMul(x, y) == The({Product(a, b) : a \in {x}, b \in {y}})

BTwice(qt, bit) ==
  LET d == BAdd(qt, qt)
  IN  IF bit = 0 THEN d ELSE IF d = << >> THEN <<1>> ELSE [d EXCEPT ![1] = @ + 1]

RECURSIVE DivBits(_, _, _)
(* n more bits of a quotient by dv, from the quotient st.q and the rest     *)
(* st.r that the bits before have left.                                    *)
DivBits(st, dv, n) ==
  IF n = 0 THEN st
  ELSE LET r2 == BAdd(st.r, st.r)
       IN  IF BCmp(r2, dv) >= 0
             THEN DivBits([q |-> BTwice(st.q, 1), r |-> BSub(r2, dv)], dv, n - 1)
           ELSE DivBits([q |-> BTwice(st.q, 0), r |-> r2], dv, n - 1)

Quotient(a, b) ==
  IF IsZero(b) THEN DInf(a.s * b.s)
  ELSE IF IsInf(b) \/ IsZero(a) THEN DZero
  ELSE IF IsInf(a) THEN DInf(a.s * b.s)
  ELSE The({Rounded(a.s * b.s, BTwice(qr.q, IF qr.r = << >> THEN 0 ELSE 1),
                    a.e - b.e - (MantBits + 4)) :
              qr \in {DivBits(IF BCmp(a.m, b.m) >= 0
                                THEN [q |-> <<1>>, r |-> BSub(a.m, b.m)]
                              ELSE [q |-> << >>, r |-> a.m], b.m, MantBits + 3)}})

DDiv(x, y) == The({Quotient(a, b) : a \in {x}, b \in {y}})

DSign(a) == IF IsZero(a) THEN 0 ELSE a.s

Less(a, b) ==
  IF IsInf(a) THEN a.s < 0 /\ ~(IsInf(b) /\ b.s < 0)
  ELSE IF IsInf(b) THEN b.s > 0
  ELSE DSign(Sum(a, DNeg(b))) < 0

DLess(x, y) == \E a \in {x}, b \in {y} : Less(a, b)

(* Twice the whole part of x >= 0, plus one when x is not whole: it stands *)
(* to twice a whole number as x stands to that number.  Radii stay below   *)
(* RankCap/2.                                                              *)
RankCap == Pow2(30)

Rank(x) ==
  IF IsZero(x) THEN 0
  ELSE IF IsInf(x) \/ x.e > -24 THEN x.s * RankCap
  ELSE LET whole == BShr(x.m, -x.e)
       IN  x.s * ( 2 * (Digit(whole, 1) + LimbBase * Digit(whole, 2))
                   + (IF BShl(whole, -x.e) = x.m THEN 0 ELSE 1) )

(***************************************************************************)
(* Optical depth along a bent path: the search for the closest approach.   *)
(* b and the radii are whole numbers; a refractivity is given in units of  *)
(* 1/RefDen and is the double refr/RefDen in the caller's array.  r0 and   *)
(* r0a are doubles, and r0 == r0a compares doubles: a search that only     *)
(* approaches its limit ends when two successive rounded values agree.     *)
(***************************************************************************)
maxiterations == 50
RefDen == 10

(* refr[k-1] of the code. *)
Refr(refr, k) == DDiv(Dbl(refr[k]), Dbl(RefDen))

(* The refractivity at radius x, linear between the two samples around x   *)
(* and equal to the end samples outside them:                              *)
(* y0 + (y1 - y0)*(x - x0)/(x1 - x0) in doubles.                           *)
lineinterp(x, rad, refr, n) ==
  IF ~DLess(Dbl(rad[1]), x) THEN Refr(refr, 1)
  ELSE IF ~DLess(x, Dbl(rad[n])) THEN Refr(refr, n)
  ELSE LET k == CHOOSE j \in 1 .. n-1 :
                  ~DLess(x, Dbl(rad[j])) /\ DLess(x, Dbl(rad[j+1]))
       IN  The({DAdd(y0, DDiv(DMul(DSub(Refr(refr, k+1), y0), DSub(x, x0)),
                              DSub(Dbl(rad[k+1]), x0))) :
                  y0 \in {Refr(refr, k)}, x0 \in {Dbl(rad[k])}})

(* PREC_RES dt[nrad]; r0a = b; r0 = 0; i = 0. *)
Tau2Enter ==
  /\ arg.f = "totaltau2" /\ res = NoArg /\ wk = Idle
  /\ wk' = [busy |-> TRUE, pc |-> "search", i |-> 0, r0a |-> Dbl(arg.b),
            r0 |-> DZero, evals |-> 0]
  /\ UNCHANGED <<op, ret, inputs, pi, alloc, e, eden, computed, file, saved, first, arg, res>>

(* One turn of while(1): r0 = b/lineinterp(r0a, ...); break when equal;    *)
(* the critical error when i++ > maxiterations; else r0a = r0.             *)
Tau2Iterate ==
  /\ wk # Idle /\ wk.pc = "search"
  /\ \E r0 \in {DDiv(Dbl(arg.b), lineinterp(wk.r0a, arg.rad, arg.refr, arg.n))} :
         IF r0 = wk.r0a
           THEN /\ wk' = [wk EXCEPT !.pc = "found", !.r0 = r0, !.evals = @ + 1]
                /\ UNCHANGED <<ret, res>>
         ELSE IF wk.i > maxiterations
           THEN /\ wk' = [wk EXCEPT !.pc = "dead", !.r0 = r0, !.i = @ + 1, !.evals = @ + 1]
                /\ ret' = Critical
                /\ res' = [f |-> "totaltau2",
                           out |-> [how |-> "critical", path |-> "convergence",
                                    r0 |-> r0, evals |-> wk.evals + 1]]
         ELSE /\ wk' = [wk EXCEPT !.r0 = r0, !.r0a = r0, !.i = @ + 1, !.evals = @ + 1]
              /\ UNCHANGED <<ret, res>>
  /\ UNCHANGED <<op, inputs, pi, alloc, e, eden, computed, file, saved, first, arg>>

(* for (i = rs; i < nrad; i++): r0a = b/refr[i]/rad[i];                    *)
(* transitASSERT(r0a > 1, ...), a macro of transit.h taken as              *)
(* if (r0a > 1) transiterror(TERR_CRITICAL, ...), as its message reads.    *)
AssertFails(b, rad, refr, rs, n) ==
  \E i \in rs .. n - 1 :
    DLess(Dbl(1), DDiv(DDiv(Dbl(b), Refr(refr, i+1)), Dbl(rad[i+1])))

(* From the binsearch on: a miss, the out-of-range error, the assertion    *)
(* on the samples left, or the analytic term plus the quadrature of the    *)
(* nrad-rs samples left, whose value is not evaluated.                     *)
Tau2Finish ==
  /\ wk # Idle /\ wk.pc = "found"
  /\ LET rs0  == binsearch([k \in 1 .. arg.n |-> 2 * arg.rad[k]], 0, arg.n - 1, Rank(wk.r0))
         rs   == rs0 + 1
         left == arg.n - rs
         stop == rs0 >= 0 /\ AssertFails(arg.b, arg.rad, arg.refr, rs, arg.n)
     IN  /\ res' = [f |-> "totaltau2",
                    out |-> [how |-> IF (rs0 < 0 /\ rs0 # -5) \/ stop THEN "critical"
                                     ELSE "return",
                             path |-> IF rs0 = -5 THEN "miss"
                                      ELSE IF rs0 < 0 THEN "range"
                                      ELSE IF stop THEN "assert"
                                      ELSE IF left > 2 THEN "spline"
                                      ELSE IF left > 1 THEN "trasim"
                                      ELSE "analytic",
                             r0 |-> wk.r0, evals |-> wk.evals]]
         /\ ret' = IF res'.out.how = "critical" THEN Critical ELSE ret
  /\ wk' = [wk EXCEPT !.pc = "done"]
  /\ UNCHANGED <<op, inputs, pi, alloc, e, eden, computed, file, saved, first, arg>>

(* Refractivity curves over the radii 40, 60, 80, 100: flat, falling       *)
(* outward gently and by a step, rising steeply outward, and a bump.       *)
Tau2Rad == <<40, 60, 80, 100>>
Tau2Refr == {<<10, 10, 10, 10>>, <<20, 14, 11, 10>>, <<10, 10, 5, 5>>,
             <<5, 25, 45, 65>>, <<10, 20, 20, 10>>}

(* On the gentle curve the search from 90 approaches 150 - 30*sqrt(5) and   *)
(* ends where the doubles stop moving; from 80 it creeps towards 40 and is *)
(* given up.                                                               *)
Tau2Args ==
  [f : {"totaltau2"}, b : {30, 45, 50, 60, 64, 70, 80, 90, 100, 120}, n : {4},
   rad : {Tau2Rad}, refr : Tau2Refr, ex : {<<4, 3, 2, 1>>}]

InitTau2 ==
  /\ NoRun
  /\ dwn = OutDwn
  /\ junk = 0
  /\ arg \in Tau2Args
  /\ res = NoArg

NextTau2 ==
  \/ Tau2Enter
  \/ Tau2Iterate
  \/ Tau2Finish

SpecTau2 == InitTau2 /\ [][NextTau2]_vars

(***************************************************************************)
(* modulation1(tau, last, toomuch, ip, sg).  ip->v is descending and       *)
(* ip->fct is 1.  exp(-tau[i]) is given as trans[i], 0 or 1; exp(-toomuch) *)
(* is 1 (toomuch = 0) or negligible.  A cell of the two local arrays is    *)
(* (ipv[i], rinteg[i]), with set telling whether the code assigned it: an  *)
(* unassigned cell holds whatever the stack held.                          *)
(***************************************************************************)
(* last += 2; if (last > ipn-1) last = ipn-1; *)
PaddedLast(last, ipn) == IF last + 2 > ipn - 1 THEN ipn - 1 ELSE last + 2

(* An integrand without its weight b. *)
ModCellNoWeight(i, trans, last, v, ipn) ==
  IF i <= last
    THEN [set |-> TRUE, x |-> v[last - i], y |-> trans[i]]
  ELSE IF i < PaddedLast(last, ipn)
    THEN [set |-> TRUE, x |-> v[PaddedLast(last, ipn) - i], y |-> 0]
  ELSE [set |-> FALSE, x |-> junk, y |-> junk]

ModCell(i, trans, last, v, ipn) ==
  IF i <= last
    THEN [set |-> TRUE, x |-> v[last - i], y |-> trans[i] * v[last - i]]
  ELSE IF i < PaddedLast(last, ipn)
    THEN [set |-> TRUE, x |-> v[PaddedLast(last, ipn) - i], y |-> 0]
  ELSE [set |-> FALSE, x |-> junk, y |-> junk]

(* The indices of ip->v that the two filling loops read: last-i in the     *)
(* first, and, after last has been padded, last-i again in the second.     *)
ModReads(last, ipn) ==
       { last - i : i \in 0 .. last }
  \cup { PaddedLast(last, ipn) - i : i \in last + 1 .. PaddedLast(last, ipn) - 1 }

ModArrays(trans, last, v, ipn) == [i \in 0 .. ipn - 1 |-> ModCell(i, trans, last, v, ipn)]

RECURSIVE TwiceInteg(_, _)
(* Twice the integral of the first n cells by the trapezium rule, which is *)
(* what the spline integral is on samples that lie on a line.              *)
TwiceInteg(cells, n) ==
  IF n < 2 THEN 0
  ELSE (cells[n-1].x - cells[n-2].x) * (cells[n-1].y + cells[n-2].y) + TwiceInteg(cells, n - 1)

(* The value returned is num/den. *)
modulation1(trans, last, negl, v, ipn, srad) ==
  LET cells == ModArrays(trans, last, v, ipn)
      n     == PaddedLast(last, ipn) + 1
  IN  IF n < 3
        THEN [how |-> "critical", path |-> "samples", n |-> n, cells |-> cells,
              num |-> 0, den |-> 1]
      ELSE [how |-> "return", path |-> "spline", n |-> n, cells |-> cells,
            num |-> TwiceInteg(cells, n) + srad * srad - cells[n-1].x * cells[n-1].x
                    + (IF negl THEN 0 ELSE cells[0].x * cells[0].x),
            den |-> srad * srad]

CallModulation1 ==
  /\ arg.f = "modulation1" /\ res = NoArg
  /\ res' = [f |-> "modulation1",
             out |-> modulation1(arg.trans, arg.last, arg.negl, arg.v, arg.ipn, arg.srad)]
  /\ ret' = IF res'.out.how = "critical" THEN Critical ELSE ret
  /\ UNCHANGED <<op, inputs, pi, alloc, e, eden, computed, file, saved, first, wk, arg>>

(***************************************************************************)
(* The two entries of the ray solution.  A call of totaltau1 takes b and a *)
(* scalar refractivity with r0 = b/refr; the refractivities of the array   *)
(* are in units of 1/RefDen, so b is handed over in the same units.        *)
(***************************************************************************)
(* A dispatch that hands over the second refractivity. *)
SecondRefr(refr) == refr[2]

(* *refr *)
FirstRefr(refr) == refr[1]

LevelError(f) == [f |-> f, out |-> [how |-> "critical", path |-> "level"]]

totaltau ==
  /\ arg.f = "totaltau" /\ res = NoArg
  /\ op' = Did("totaltau", arg.exprlevel)
  /\ IF arg.exprlevel = 1
       THEN /\ arg' = [f |-> "totaltau1", b |-> arg.b * RefDen, rad |-> arg.rad,
                       refr |-> FirstRefr(arg.refr), ex |-> arg.ex, n |-> arg.n]
            /\ UNCHANGED <<ret, res>>
     ELSE IF arg.exprlevel = 2
       THEN /\ arg' = [f |-> "totaltau2", b |-> arg.b, rad |-> arg.rad,
                       refr |-> arg.refr, ex |-> arg.ex, n |-> arg.n]
            /\ UNCHANGED <<ret, res>>
     ELSE /\ ret' = Critical
          /\ res' = LevelError("totaltau")
          /\ UNCHANGED arg
  /\ UNCHANGED <<inputs, pi, alloc, e, eden, computed, file, saved, first, wk>>

modulationperwn ==
  /\ arg.f = "modulationperwn" /\ res = NoArg
  /\ op' = Did("modulationperwn", arg.exprlevel)
  /\ IF arg.exprlevel = 1
       THEN /\ arg' = [f |-> "modulation1", trans |-> arg.trans, last |-> arg.last,
                       negl |-> arg.negl, v |-> arg.v, ipn |-> arg.ipn, srad |-> arg.srad]
            /\ UNCHANGED <<ret, res>>
     ELSE /\ ret' = Critical
          /\ res' = LevelError("modulationperwn")
          /\ UNCHANGED arg
  /\ UNCHANGED <<inputs, pi, alloc, e, eden, computed, file, saved, first, wk>>

MaxLevel == 3
MaxIpn   == 5

(* Descending impact parameters that end at inner. *)
IpGrid(ipn, inner) == [k \in 0 .. ipn - 1 |-> inner + 2 * (ipn - 1 - k)]

RayCalls ==
       [f : {"totaltau"}, exprlevel : 0 .. MaxLevel, b : {30, 50, 60, 70, 90, 100, 120}, n : {4},
        rad : {Tau2Rad}, refr : Tau2Refr, ex : {<<4, 3, 2, 1>>}]
  \cup UNION { [f : {"modulationperwn"}, exprlevel : 0 .. MaxLevel, ipn : {ipn},
                last : 0 .. ipn - 1, negl : BOOLEAN, srad : {12, 15},
                v : {IpGrid(ipn, 0), IpGrid(ipn, 3)},
                trans : {[i \in 0 .. ipn - 1 |-> 1], [i \in 0 .. ipn - 1 |-> i % 2]}]
               : ipn \in 1 .. MaxIpn }

InitRay ==
  /\ NoRun
  /\ dwn = OutDwn
  /\ junk \in {0, 7}
  /\ arg \in RayCalls
  /\ res = NoArg

NextRay ==
  \/ totaltau
  \/ modulationperwn
  \/ CallTotalTau1
  \/ Tau2Enter
  \/ Tau2Iterate
  \/ Tau2Finish
  \/ CallModulation1

SpecRay == InitRay /\ [][NextRay]_vars

(***************************************************************************)
(* restextinct(in, nrad, niso, nwn, ex).  The stream is file.bytes; nrad,  *)
(* niso and nwn are the dimensions the caller expects.  The header fields  *)
(* have their sizes (a PREC_NREC of 8 bytes, a short of 2); a PREC_RES     *)
(* takes ResBytes bytes as in the savefile.  ex->computed is the caller's  *)
(* array of nrad one-byte flags.                                           *)
(***************************************************************************)
NrecBytes  == 8
ShortBytes == 2
HeaderBytes == NrecBytes + ShortBytes + NrecBytes

(* The n-byte image of a field below 2^31: its bytes above the fourth are  *)
(* zero.                                                                   *)
EncodeLE(v, n) == [k \in 1 .. n |-> IF k > 4 THEN 0 ELSE (v \div Pow256(k-1)) % 256]

HeaderOf(nr, i, nw) == EncodeLE(nr, NrecBytes) \o EncodeLE(i, ShortBytes) \o EncodeLE(nw, NrecBytes)

(* A header test that only compares the dimensions. *)
HeaderDiffers(nr, i, nw) == nr # nrad \/ nw # nwn \/ i # niso

(* if (nr!=nrad || nw!=nwn || i!=niso || niso>10000 || nrad>10000000 ||    *)
(*     nwn>10000000) return -2;                                            *)
HeaderWrong(nr, i, nw) ==
  \/ nr # nrad \/ nw # nwn \/ i # niso
  \/ niso > 10000 \/ nrad > 10000000 \/ nwn > 10000000

(* What a call leaves: the code returned, ex->e, ex->computed, whether     *)
(* ex->e[0] is allocated, and the number of bytes written past the end of  *)
(* ex->computed.  mem is the number of calloc calls that succeed.          *)
RestExtinctOut(bytes, mem) ==
  LET same == [code |-> -1, e |-> e, c |-> computed, alloc |-> alloc, over |-> 0]
      nr   == DecodeRes(SubSeq(bytes, 1, NrecBytes))
      i    == DecodeRes(SubSeq(bytes, NrecBytes + 1, NrecBytes + ShortBytes))
      nw   == DecodeRes(SubSeq(bytes, NrecBytes + ShortBytes + 1, HeaderBytes))
      n    == nrad * nwn
      body == Drop(bytes, HeaderBytes)
      grid == BytesGrid(Fread(GridBytes([q \in 0 .. n-1 |-> 0], n), body), n)
      rest == Drop(body, n * ResBytes)
      got  == Min(Len(rest), nrad * ResBytes)
      kept == IF got = 0 THEN << >> ELSE SubSeq(rest, 1, Min(got, nrad))
      flags == BytesFlags(Fread(FlagBytes(computed, nrad), kept), nrad)
  IN  IF Len(bytes) < NrecBytes THEN same
      ELSE IF Len(bytes) < NrecBytes + ShortBytes THEN same
      ELSE IF Len(bytes) < HeaderBytes THEN same
      ELSE IF HeaderWrong(nr, i, nw) THEN [same EXCEPT !.code = -2]
      ELSE IF mem < 2
        THEN [code |-> -3, e |-> << >>, c |-> computed, alloc |-> FALSE, over |-> 0]
      ELSE IF Min(n, Len(body) \div ResBytes) # n
        THEN [code |-> -1, e |-> grid, c |-> computed, alloc |-> TRUE, over |-> 0]
      ELSE [code |-> IF Min(nrad, Len(rest) \div ResBytes) # nrad THEN -1 ELSE 0,
            e |-> grid, c |-> flags, alloc |-> TRUE, over |-> Max(0, got - nrad)]

restextinct(mem) ==
  /\ op.f = "init"
  /\ op' = Did("restextinct", -1)
  /\ LET out == RestExtinctOut(file.bytes, mem)
     IN  /\ ret' = Returned(out.code)
         /\ e' = out.e
         /\ eden' = IF out.e = e THEN eden ELSE [q \in DOMAIN out.e |-> 1]
         /\ computed' = out.c
         /\ alloc' = out.alloc
         /\ res' = [f |-> "restextinct", over |-> out.over]
  /\ UNCHANGED <<inputs, pi, file, saved, first, wk, arg>>

(* The dimensions a caller expects: small ones, and ones beyond the        *)
(* sanity limits.                                                          *)
RestDims ==
       {[nrad |-> a, niso |-> 1, nwn |-> b, big |-> FALSE] : <<a, b>> \in (1 .. MaxRad) \X (2 .. MaxWn)}
  \cup {[nrad |-> 10000001, niso |-> 1, nwn |-> 2, big |-> TRUE],
        [nrad |-> 2, niso |-> 10001, nwn |-> 2, big |-> TRUE],
        [nrad |-> 2, niso |-> 1, nwn |-> 10000001, big |-> TRUE]}

(* header, nr*nw values, nr one-byte flags *)
RestStream(hnr, hi, hnw, nr, nw) ==
  HeaderOf(hnr, hi, hnw) \o GridBytes([q \in 0 .. nr*nw - 1 |-> 250 + 3 * q], nr * nw)
                         \o FlagBytes([r \in 0 .. nr - 1 |-> r % 2 = 0], nr)

(* The streams a call may be given: a well-formed one, the same with bytes *)
(* after the flags, cuts of it, and ones whose header names other          *)
(* dimensions.                                                             *)
RestStreams(d) ==
  IF d.big
    THEN {HeaderOf(d.nrad, d.niso, d.nwn), SubSeq(HeaderOf(d.nrad, d.niso, d.nwn), 1, 9)}
  ELSE LET well == RestStream(d.nrad, d.niso, d.nwn, d.nrad, d.nwn)
           long == well \o [k \in 1 .. d.nrad * ResBytes |-> 1]
       IN  {SubSeq(long, 1, len) :
              len \in {0, 3, NrecBytes, NrecBytes + 1, NrecBytes + ShortBytes, HeaderBytes - 1,
                       HeaderBytes, Len(well) - d.nrad - 1, Len(well) - 1, Len(well),
                       Len(well) + d.nrad * (ResBytes - 1), Len(long)}}
           \cup {RestStream(d.nrad + 1, d.niso, d.nwn, d.nrad, d.nwn),
                 RestStream(d.nrad, d.niso + 1, d.nwn, d.nrad, d.nwn),
                 RestStream(d.nrad, d.niso, d.nwn + 1, d.nrad, d.nwn)}

InitRest ==
  /\ odwn = GridOdwn
  /\ dwn = OutDwn
  /\ op = Did("init", -1)
  /\ ret = Returned(0)
  /\ \E d \in RestDims :
       /\ nrad = d.nrad /\ niso = d.niso /\ nwn = d.nwn
       /\ computed = IF d.big THEN << >> ELSE [r \in 0 .. d.nrad - 1 |-> FALSE]
       /\ \E str \in RestStreams(d) : file = [exists |-> TRUE, bytes |-> str]
  /\ pi = FALSE
  /\ alloc = FALSE
  /\ e = << >>
  /\ eden = << >>
  /\ saved = NoSave
  /\ first = << >>
  /\ lines = << >>
  /\ ethresh = 0
  /\ width = << >>
  /\ ta = 0
  /\ temp = << >>
  /\ junk = 0
  /\ wk = Idle
  /\ arg = NoArg
  /\ res = NoArg

NextRest == \E mem \in 0 .. 2 : restextinct(mem)

SpecRest == InitRest /\ [][NextRest]_vars

(***************************************************************************)
(* Properties of the run.                                                  *)
(***************************************************************************)
RECURSIVE ByteLE(_, _, _)
(* The number that the n bytes after offset pos spell, low byte first. *)
ByteLE(bytes, pos, n) ==
  IF n = 0 THEN 0 ELSE bytes[pos + 1] + 256 * ByteLE(bytes, pos + 1, n - 1)

(* C1: after savefile_extinct the file holds the tag "@E@S@", then the     *)
(* nrad*nwav values row by row, then the nrad flags; and a                 *)
(* restfile_extinct of a saved file, with the same dimensions, leaves the  *)
(* grid and the flags as they were when the file was saved.                *)
C1_SaveRestoreRoundTrip ==
  /\ (op.f = "savefile_extinct" /\ ret.how = "return") =>
       /\ file.exists
       /\ Len(file.bytes) = 5 + nrad * nwn * ResBytes + nrad
       /\ SubSeq(file.bytes, 1, 5) = <<64, 69, 64, 83, 64>>
       /\ \A r \in Layers : \A i \in 0 .. nwn - 1 :
            ByteLE(file.bytes, 5 + (r * nwn + i) * ResBytes, ResBytes) = e[r * nwn + i]
       /\ \A r \in Layers :
            file.bytes[5 + nrad * nwn * ResBytes + r + 1] = (IF computed[r] THEN 1 ELSE 0)
  /\ (op.f = "restfile_extinct" /\ ret.how = "return" /\ saved.ok) =>
       /\ e = saved.e
       /\ computed = saved.c

(* A restore of a saved file that holds computed and uncomputed layers,    *)
(* over a row that a computation had replaced since the save.              *)
C1_Witness ==
  /\ op.f = "restfile_extinct" /\ ret.how = "return" /\ saved.ok
  /\ \E r1, r2 \in Layers : saved.c[r1] /\ ~saved.c[r2]
  /\ \E q1, q2 \in Cells : saved.e[q1] < 256 /\ saved.e[q2] > 256
  /\ \E r \in Layers : first[r].ok /\ Row(e, r) # first[r].row

(* C2: a restfile_extinct that cannot open the file, or finds fewer than   *)
(* 5 bytes, or a tag other than "@E@S@", changes no element of the grid    *)
(* and no flag, and ends with a warning.                                   *)
C2_UnusableFileChangesNothing ==
  [][ /\ ( /\ op'.f = "restfile_extinct"
           /\ \/ ~file.exists
              \/ Len(file.bytes) < 5
              \/ SubSeq(file.bytes, 1, 5) # <<64, 69, 64, 83, 64>> )
           => (e' = e /\ computed' = computed /\ ret'.how = "warning")
      /\ (op'.f = "restfile_extinct" /\ ret'.how = "warning")
           => (e' = e /\ computed' = computed)
    ]_vars

(* A restore refused for its tag, on a grid that holds a computed layer. *)
C2_Witness ==
  /\ op.f = "restfile_extinct" /\ ret.how = "warning"
  /\ file.exists /\ Len(file.bytes) > 5
  /\ SubSeq(file.bytes, 1, 5) # <<64, 69, 64, 83, 64>>
  /\ \E r \in DOMAIN computed : computed[r]
  /\ \E q \in DOMAIN e : e[q] > 0

(* C3 as stated: once the structure is allocated, no operation that the   *)
(* process survives takes a flag from true back to false.                  *)
C3_NoFlagEverCleared ==
  [][ (op'.f \in {"restfile_extinct", "computemolext", "interpolmolext"} /\ ret'.how # "signal")
        => \A r \in DOMAIN computed : computed[r] => computed'[r] ]_vars

(* C3, amended: the layer computations that return never clear a flag, an  *)
(* allocation by extwn leaves every flag false, and restfile_extinct gives *)
(* every flag the value that a complete savefile holds for it.             *)
C3_ComputationsNeverClearFlags ==
  [][ /\ (op'.f \in {"computemolext", "interpolmolext"} /\ ret'.how # "signal")
           => \A r \in DOMAIN computed : computed[r] => computed'[r]
      /\ (op'.f = "extwn" /\ ret'.code = 0 /\ ret'.how \in {"return", "exit"})
           => \A r \in DOMAIN computed' : ~computed'[r]
      /\ ( /\ op'.f = "restfile_extinct" /\ ret'.how = "return"
           /\ Len(file.bytes) = 5 + nrad * nwn * ResBytes + nrad )
           => \A r \in DOMAIN computed' :
                computed'[r] = (file.bytes[5 + nrad * nwn * ResBytes + r + 1] # 0)
    ]_vars

(* Every layer computed, the last of them by a computation. *)
C3_Witness ==
  /\ op.f \in {"computemolext", "interpolmolext"} /\ ret.how = "return"
  /\ nrad > 1
  /\ \A r \in Layers : computed[r]
  /\ first[op.r].ok /\ Row(e, op.r) # first[op.r].row

(* The last call was a computemolext that returned. *)
MolextDone == op.f = "computemolext" /\ ret.how = "return"

(* C6: whenever computemolext(r) has returned, row r is what the first run *)
(* of computemolext(r) left there, whatever the row held before the call,  *)
(* and computed[r] is set.                                                 *)
C6_ComputeIdempotent ==
  MolextDone =>
    /\ first[op.r].ok
    /\ Row(e, op.r) = first[op.r].row
    /\ computed[op.r]

(* A second computation of a layer whose row is not zero. *)
C6_Witness ==
  /\ MolextDone
  /\ first[op.r].again
  /\ \E i \in 0 .. nwn - 1 : At(e, op.r, i) > 0


(***************************************************************************)
(* Properties of the layer computation.                                    *)
(***************************************************************************)
OutsideRange(w) == w < WnsI \/ w > WnsI + (onwn - 1) * odwn

(* Line ln was skipped, alone or co-added into a skipped line. *)
Culled(ln) ==
  \/ res.cls[ln].c = "skipped"
  \/ res.cls[ln].c = "added" /\ res.cls[res.cls[ln].head].c = "skipped"

NoContributingLine ==
  \A ln \in 0 .. nlines - 1 : OutsideRange(Line(ln).wavn) \/ Culled(ln)

(* C5: a computemolext(r) that returns, on a layer where every line is     *)
(* outside [wns.i, owns.v[onwn-1]] or culled (or there is no line), leaves *)
(* row r all zero, returns 0 and sets computed[r].                         *)
C5_NoLineGivesZeroRow ==
  (MolextDone /\ NoContributingLine) =>
    /\ \A i \in 0 .. nwn - 1 : At(e, op.r, i) = 0
    /\ ret = Returned(0)
    /\ computed[op.r]

(* Lines outside the range together with culled lines, none contributing. *)
C5_Witness ==
  /\ MolextDone /\ NoContributingLine
  /\ \E l1, l2 \in 0 .. nlines - 1 :
       /\ OutsideRange(Line(l1).wavn) /\ Line(l1).wavn > WnsI
       /\ ~OutsideRange(Line(l2).wavn) /\ Culled(l2)

(* The largest single-line strength among the lines inside the range. *)
StrongestInRange(r) ==
  LET ks == {Density(r) * Line(ln).gf : ln \in {l \in 0 .. nlines - 1 : ~OutsideRange(Line(l).wavn)}}
  IN  IF ks = {} THEN 0 ELSE CHOOSE k \in ks : \A k2 \in ks : k2 <= k

(* The summed strength of line ln and the lines co-added into it. *)
GroupStrength(r, ln) ==
  SumTo([l \in 0 .. nlines - 1 |->
           IF l = ln \/ (res.cls[l].c = "added" /\ res.cls[l].head = ln)
             THEN Density(r) * Line(l).gf ELSE 0], nlines)

(* C7: in the second pass of a computemolext that returns, a line, with    *)
(* the lines co-added into it, is                                          *)
(* skipped iff its summed propto_k is below ethresh*kmax, kmax the largest *)
(* single-line propto_k among the lines inside the range; with ethresh = 0 *)
(* no line inside the range is skipped.                                    *)
C7_SkipIffBelowThreshold ==
  MolextDone =>
    /\ \A ln \in 0 .. nlines - 1 :
         res.cls[ln].c \in {"skipped", "evaluated"} =>
           ( res.cls[ln].c = "skipped"
             <=> GroupStrength(op.r, ln) * EthreshDen < ethresh * StrongestInRange(op.r) )
    /\ res.nskip = Cardinality({ln \in 0 .. nlines - 1 : res.cls[ln].c = "skipped"})
    /\ ethresh = 0 =>
         \A ln \in 0 .. nlines - 1 : ~OutsideRange(Line(ln).wavn) => ~Culled(ln)

(* A skipped pair of co-added lines beside an evaluated line. *)
C7_Witness ==
  /\ MolextDone /\ ethresh > 0
  /\ \E l1, l2, l3 \in 0 .. nlines - 1 :
       /\ res.cls[l1].c = "skipped"
       /\ res.cls[l2].c = "added" /\ res.cls[l2].head = l1
       /\ res.cls[l3].c = "evaluated"


(***************************************************************************)
(* Properties of layer computations side by side.                          *)
(***************************************************************************)
(* The grid after the computation of worker w alone, run on a grid g of    *)
(* whole values with temperatures inside the table, where the values stay  *)
(* whole.                                                                  *)
AloneOn(g, w) ==
  IF wk[w].f = "computemolext" THEN WriteRow(g, wk[w].r, Downsampled(wk[w].r, Accumulate(wk[w].r).ktmp))
  ELSE WriteRow(g, wk[w].r,
                [i \in 0 .. Nwave - 1 |->
                   At(g, wk[w].r, i) + InterpolAdd(wk[w].r, i).n])

(* C4: while no call has died on a failed allocation,                      *)
(* a layer computation writes row r and computed[r] only, so however       *)
(* the steps of two computations on distinct layers interleave, a layer    *)
(* nobody computes keeps its row and flag, and when both are done the grid *)
(* and the flags are those of running one after the other, in either       *)
(* order.                                                                  *)
C4_DistinctLayersIndependent ==
  ret.how # "signal" =>
    /\ \A r \in Layers :
         (\A w \in Workers : wk[w].r # r) =>
           (Row(e, r) = Row(saved.e, r) /\ computed[r] = saved.c[r])
    /\ \A q \in Cells : eden[q] = 1
    /\ (\A w \in Workers : wk[w].pc = "done") =>
         /\ e = AloneOn(AloneOn(saved.e, 1), 2)
         /\ e = AloneOn(AloneOn(saved.e, 2), 1)
         /\ \A r \in Layers : computed[r] = (saved.c[r] \/ \E w \in Workers : wk[w].r = r)

(* Both done, one of each kind, on a grid that was not zero. *)
C4_Witness ==
  /\ \A w \in Workers : wk[w].pc = "done"
  /\ wk[1].f = "computemolext" /\ wk[2].f = "interpolmolext"
  /\ wk[1].r > wk[2].r
  /\ \E q \in Cells : saved.e[q] > 0
  /\ \E i \in 0 .. nwn - 1 : At(e, wk[1].r, i) > 0


(***************************************************************************)
(* Properties of getprofile.                                               *)
(***************************************************************************)
ProfileShapeOk ==
  /\ res.out.nvgt % 2 = 1
  /\ res.out.nvgt >= 3
  /\ res.out.nvgt <= 2 * arg.nwave + 1
  /\ res.out.err # "bins"
  /\ res.out.how = "return" => res.out.nvgt = 2 * res.out.half + 1

(* C8 as stated: for widths > 0 and any maximum half-size the number of    *)
(* points is odd, at least 3, at most 2*max_half_points+1, and n = 2*h+1.  *)
C8_ProfileSizeAnyHalfSize ==
  (res.f = "getprofile" /\ arg.dop > 0 /\ arg.lor > 0) => ProfileShapeOk

(* C8, amended: the same for every maximum half-size of at least 1. *)
C8_ProfileSize ==
  (res.f = "getprofile" /\ arg.dop > 0 /\ arg.lor > 0 /\ arg.nwave >= 1) => ProfileShapeOk

(* A profile cut down to the maximum half-size, and returned. *)
C8_Witness ==
  /\ res.f = "getprofile" /\ arg.dop > 0 /\ arg.lor > 0 /\ arg.nwave >= 1
  /\ res.out.how = "return"
  /\ res.out.nvgt0 > res.out.nvgt /\ res.out.nvgt > 3

(* C9: when the point count computed from the widths is negative,          *)
(* getprofile ends with the critical error on the number of bins and       *)
(* allocates no profile.                                                   *)
C9_NegativeCountRejected ==
  (res.f = "getprofile" /\ res.out.nvgt0 < 0) =>
    (res.out.how = "critical" /\ res.out.err = "bins" /\ ~res.out.allocated)


(***************************************************************************)
(* Properties of totaltau1.                                                *)
(***************************************************************************)
ArraysUntouched == res.out.rad = arg.rad /\ res.out.ex = Whole(arg.ex)

(* C10: totaltau1 returns 0 when r0 = b/refr is at or beyond the outermost *)
(* radius rad[nrad-1], ends with the critical out-of-range error when r0   *)
(* is below the innermost radius rad[0], and in neither case changes rad[] *)
(* or ex[].                                                                *)
C10_MissAndOutOfRange ==
  res.f = "totaltau1" =>
    /\ arg.b >= arg.rad[arg.n] * arg.refr =>
         (res.out.how = "return" /\ res.out.path = "miss" /\ res.out.val = Quot(0, 1)
          /\ ret = Returned(0) /\ ArraysUntouched)
    /\ arg.b < arg.rad[1] * arg.refr =>
         (res.out.how = "critical" /\ ret = Critical /\ ArraysUntouched)

(* The impact parameter exactly at the outermost radius, through a         *)
(* refractivity of 2.                                                      *)
C10_Witness ==
  /\ res.f = "totaltau1"
  /\ arg.refr = 2 /\ arg.b = arg.rad[arg.n] * arg.refr
  /\ res.out.val = Quot(0, 1) /\ res.out.path = "miss"


(* C11: every call of totaltau1 that returns leaves rad[] and ex[] equal,  *)
(* element for element, to what they held before the call; during the     *)
(* call only the samples at the bracketing index rs are overwritten.       *)
C11_ArraysRestored ==
  (res.f = "totaltau1" /\ res.out.how = "return") =>
    /\ res.out.rad = arg.rad
    /\ res.out.ex = Whole(arg.ex)
    /\ \A k \in 1 .. arg.n :
         (res.out.radP[k] # arg.rad[k] \/ res.out.exP[k] # Quot(arg.ex[k], 1))
           => k = res.out.rs + 1

(* A call that integrated over a radius and an extinction it had           *)
(* overwritten, at a sample that is not the first.                         *)
C11_Witness ==
  /\ res.f = "totaltau1" /\ res.out.how = "return"
  /\ res.out.path \in {"spline", "tail"}
  /\ res.out.rs > 0
  /\ res.out.radP # arg.rad /\ res.out.exP # Whole(arg.ex)
  /\ res.out.rad = arg.rad /\ res.out.ex = Whole(arg.ex)


(***************************************************************************)
(* Properties of totaltau2.                                                *)
(***************************************************************************)
(* C12: the closest-approach search of totaltau2 evaluates                 *)
(* r0 = b/refractivity(r0a) at most 50 times, and ends with the critical   *)
(* convergence error as soon as 50 evaluations have passed without two     *)
(* successive values being equal.                                          *)
C12_AtMostFiftyEvaluations ==
  /\ (wk # Idle /\ arg.f = "totaltau2") => wk.evals <= maxiterations
  /\ (res.f = "totaltau2" /\ res.out.path = "convergence") => res.out.evals = maxiterations


(***************************************************************************)
(* Properties of the ray solution.                                         *)
(***************************************************************************)
(* C13: totaltau hands level 1 to totaltau1 with the first refractivity as *)
(* a scalar and level 2 to totaltau2 with the refractivity array, and ends *)
(* with the critical level error for every other level; modulationperwn    *)
(* hands level 1 to modulation1 and ends with the critical level error for *)
(* every other level, 2 included.                                          *)
C13_LevelDispatch ==
  [][ /\ (arg.f = "totaltau" /\ op'.f = "totaltau") =>
           IF arg.exprlevel = 1
             THEN /\ arg'.f = "totaltau1" /\ arg'.refr = arg.refr[1]
                  /\ arg'.rad = arg.rad /\ arg'.ex = arg.ex /\ arg'.n = arg.n
                  /\ ret' = ret /\ res' = NoArg
           ELSE IF arg.exprlevel = 2
             THEN /\ arg'.f = "totaltau2" /\ arg'.refr = arg.refr /\ arg'.b = arg.b
                  /\ arg'.rad = arg.rad /\ arg'.ex = arg.ex /\ arg'.n = arg.n
                  /\ ret' = ret /\ res' = NoArg
           ELSE ret' = Critical /\ res'.out.path = "level" /\ arg' = arg
      /\ (arg.f = "modulationperwn" /\ op'.f = "modulationperwn") =>
           IF arg.exprlevel = 1
             THEN /\ arg'.f = "modulation1" /\ arg'.trans = arg.trans /\ arg'.last = arg.last
                  /\ arg'.v = arg.v /\ arg'.ipn = arg.ipn
                  /\ ret' = ret /\ res' = NoArg
           ELSE ret' = Critical /\ res'.out.path = "level" /\ arg' = arg
    ]_vars

(* A straight-path call made through totaltau with refractivities that     *)
(* differ, and finished.                                                   *)
C13_Witness ==
  /\ op.f = "totaltau" /\ op.r = 1
  /\ res.f = "totaltau1" /\ res.out.how = "return"
  /\ arg.refr = 20

(* C14: modulation1 with last valid index L on ipn samples integrates      *)
(* N = min(L+2, ipn-1)+1 points: the L+1 points exp(-tau_i)*b_i, then      *)
(* points of integrand 0, every one of the N assigned; it ends with the    *)
(* critical error exactly when N < 3.                                      *)
C14_EveryPointAssigned ==
  res.f = "modulation1" =>
    LET big == Min(arg.last + 2, arg.ipn - 1) + 1
    IN  /\ res.out.n = big
        /\ (big < 3) = (res.out.how = "critical")
        /\ res.out.how = "return" =>
             \A i \in 0 .. big - 1 :
               /\ res.out.cells[i].set
               /\ res.out.cells[i].y = (IF i <= arg.last THEN arg.trans[i] * res.out.cells[i].x ELSE 0)

Transparent == \A i \in 0 .. arg.ipn - 1 : arg.trans[i] = 1

(* C15 as stated: with every tau_i = 0 and a negligible saturation term,   *)
(* modulation1 returns 1.                                                  *)
C15_TransparentGivesOne ==
  (res.f = "modulation1" /\ res.out.how = "return" /\ Transparent /\ arg.negl) =>
    res.out.num = res.out.den

(* C15, amended: with every tau_i = 0, a negligible saturation term and    *)
(* every sample in use (L = ipn-1), modulation1 returns                    *)
(* 1 - (b_first/R_star)^2, b_first the innermost impact parameter; with    *)
(* L < ipn-1 the last point it integrates was never assigned.              *)
C15_TransparentGivesDiskFraction ==
  (res.f = "modulation1" /\ res.out.how = "return" /\ Transparent /\ arg.negl) =>
    /\ arg.last = arg.ipn - 1 =>
         res.out.num = res.out.den - arg.v[arg.ipn - 1] * arg.v[arg.ipn - 1]
    /\ arg.last < arg.ipn - 1 => ~res.out.cells[res.out.n - 1].set

(* A transparent atmosphere over a grid that ends above the centre. *)
C15_Witness ==
  /\ res.f = "modulation1" /\ res.out.how = "return" /\ Transparent /\ arg.negl
  /\ arg.last = arg.ipn - 1 /\ arg.ipn > 3
  /\ arg.v[arg.ipn - 1] > 0
  /\ res.out.num < res.out.den


(***************************************************************************)
(* Properties of extwn and of the two restores.                            *)
(***************************************************************************)
(* C16: extwn returns -2 with no layer, else -3 with fewer than two        *)
(* wavenumber points, else -5 with no isotope; in each of these cases it   *)
(* has allocated neither the grid nor the flags and has not set the        *)
(* progress bit.                                                           *)
C16_ExtwnErrorCodes ==
  [][ op'.f = "extwn" =>
        /\ nrad < 1 => ret' = [code |-> -2, how |-> "return"]
        /\ (nrad >= 1 /\ nwn < 2) => ret' = [code |-> -3, how |-> "return"]
        /\ (nrad >= 1 /\ nwn >= 2 /\ niso < 1) => ret' = [code |-> -5, how |-> "return"]
        /\ (nrad < 1 \/ nwn < 2 \/ niso < 1) =>
             (alloc' = alloc /\ pi' = pi /\ e' = e /\ computed' = computed)
        /\ (nrad >= 1 /\ nwn >= 2 /\ niso >= 1 /\ ret'.how \in {"return", "exit"})
             => (ret'.code = 0 /\ alloc' /\ pi')
    ]_vars

(* No isotope, with layers and wavenumbers enough. *)
C16_Witness ==
  /\ op.f = "extwn" /\ ret.code = -5
  /\ nrad >= 2 /\ nwn >= 2
  /\ ~alloc /\ ~pi


(* C17: after a valid tag, a file whose body is shorter than nrad*nwav     *)
(* values and nrad flags is an error: restfile_extinct never returns       *)
(* normally from it.                                                       *)
C17_TruncatedBodyRejected ==
  [][ ( /\ op'.f = "restfile_extinct"
        /\ file.exists /\ Len(file.bytes) >= 5
        /\ SubSeq(file.bytes, 1, 5) = <<64, 69, 64, 83, 64>>
        /\ Len(file.bytes) < 5 + nrad * nwn * ResBytes + nrad )
      => ret'.how # "return"
    ]_vars


PersistedNr == ByteLE(file.bytes, 0, 8)
PersistedI  == ByteLE(file.bytes, 8, 2)
PersistedNw == ByteLE(file.bytes, 10, 8)

(* C18: restextinct returns -2 exactly when the 18 header bytes were read  *)
(* and the persisted (nrad, niso, nwave) differ from the expected ones or  *)
(* exceed the sanity limits; a return of -1 for a short header or of -2    *)
(* leaves ex->e unallocated and the structure as it was.                   *)
C18_HeaderValidation ==
  [][ op'.f = "restextinct" =>
        /\ (ret'.code = -2) =
             ( /\ Len(file.bytes) >= 18
               /\ \/ PersistedNr # nrad \/ PersistedI # niso \/ PersistedNw # nwn
                  \/ PersistedI > 10000 \/ PersistedNr > 10000000 \/ PersistedNw > 10000000 )
        /\ Len(file.bytes) < 18 => ret'.code = -1
        /\ (Len(file.bytes) < 18 \/ ret'.code = -2) =>
             (e' = e /\ computed' = computed /\ alloc' = alloc /\ res'.over = 0)
    ]_vars

(* A header equal to the expected dimensions, refused for its isotope      *)
(* count alone.                                                            *)
C18_Witness ==
  /\ op.f = "restextinct" /\ ret.code = -2
  /\ Len(file.bytes) >= 18
  /\ PersistedNr = nrad /\ PersistedI = niso /\ PersistedNw = nwn
  /\ niso > 10000

(* C19: from a header equal to the expected dimensions followed by         *)
(* nrad*nwave values and nrad one-byte flags, restextinct returns 0 with   *)
(* the values in ex->e, the flags in ex->computed, and no byte written     *)
(* beyond the nrad flags.                                                  *)
C19_WellFormedStreamRestored ==
  ( /\ op.f = "restextinct" /\ alloc
    /\ Len(file.bytes) = 18 + nrad * nwn * ResBytes + nrad
    /\ PersistedNr = nrad /\ PersistedI = niso /\ PersistedNw = nwn ) =>
      /\ ret.code = 0
      /\ \A q \in 0 .. nrad * nwn - 1 : e[q] = ByteLE(file.bytes, 18 + q * ResBytes, ResBytes)
      /\ \A r \in 0 .. nrad - 1 :
           computed[r] = (file.bytes[18 + nrad * nwn * ResBytes + r + 1] # 0)
      /\ res.over = 0


(***************************************************************************)
(* The row of a single line.                                               *)
(***************************************************************************)
OneLineDone ==
  /\ MolextDone
  /\ niso = 1 /\ nlines = 1 /\ ethresh = 0
  /\ WnsI < Line(0).wavn /\ Line(0).wavn < WnsI + (onwn - 1) * odwn

OneRow == Row(e, op.r)

(* The oversampled points closest to the line centre, and the output bins  *)
(* closest to one of them.                                                 *)
CentrePoints ==
  {i \in 0 .. onwn - 1 :
     \A i2 \in 0 .. onwn - 1 :
        Abs(Line(0).wavn - (WnsI + i * odwn)) <= Abs(Line(0).wavn - (WnsI + i2 * odwn))}

NearestBins ==
  {k \in 0 .. nwn - 1 :
     \E i \in CentrePoints : \A k2 \in 0 .. nwn - 1 : Abs(k * Wnso - i) <= Abs(k2 * Wnso - i)}

(* The half-size of the profile that the line is given. *)
OneHalf == profsize(Rebin(op.r, 0, Line(0).wavn, Idop0(op.r)[0]), Ilor(op.r, 0))

(* C20: with one isotope, one line whose centre lies inside the wavenumber *)
(* grid and ethresh = 0, the line is evaluated in every layer, and the     *)
(* layer's row is non-zero, has its largest value at a bin nearest the     *)
(* line centre, does not rise again on either side of it, and is zero      *)
(* beyond the profile's support.                                           *)
C20_SingleLinePeak ==
  OneLineDone =>
    /\ res.neval = 1 /\ res.nskip = 0 /\ res.cls[0].c = "evaluated"
    /\ \E k \in NearestBins :
         /\ OneRow[k] > 0
         /\ \A k2 \in 0 .. nwn - 1 : OneRow[k2] <= OneRow[k]
         /\ \A k2 \in 0 .. nwn - 2 :
              /\ k2 + 1 <= k => OneRow[k2] <= OneRow[k2 + 1]
              /\ k2 >= k => OneRow[k2] >= OneRow[k2 + 1]
    /\ \A k \in 0 .. nwn - 1 :
         OneRow[k] # 0 => \E i \in CentrePoints : Abs(k * Wnso - i) <= OneHalf + Wnso \div 2


(***************************************************************************)
(* Properties of the second pass over the lines.                           *)
(***************************************************************************)
IsHead(ln) == res.cls[ln].c \in {"skipped", "evaluated"}

(* Line m can be merged into head ln: same isotope, and within odwn of the *)
(* oversampled point nearest to the head.                                  *)
Mergeable(ln, m) ==
  /\ Line(m).isoid = Line(ln).isoid
  /\ Abs(Line(m).wavn - OwnsV(Iown(Line(ln).wavn))) < odwn

(* C21: in a computemolext that returns,                                   *)
(* the lines that follow a head line ln are co-added into it for as        *)
(* long as the next one has the isotope of ln and lies within odwn of      *)
(* owns.v[iown], iown the index of ln; the first line that fails either    *)
(* test ends the merging, and nadd counts the co-added lines.              *)
C21_MergeWhileSameBin ==
  MolextDone =>
    /\ \A ln \in 0 .. nlines - 1 : IsHead(ln) =>
         \A m \in ln + 1 .. nlines - 1 :
           (res.cls[m].c = "added" /\ res.cls[m].head = ln)
             <=> (\A q \in ln + 1 .. m : Mergeable(ln, q))
    /\ \A m \in 0 .. nlines - 1 : res.cls[m].c = "added" => IsHead(res.cls[m].head)
    /\ res.nadd = Cardinality({m \in 0 .. nlines - 1 : res.cls[m].c = "added"})

(* A line co-added into line 0 that is nearer to the next point of the     *)
(* grid than to the point of line 0; line 2, of the same isotope, is       *)
(* within odwn of that next point and not of the point of line 0, and is   *)
(* not co-added; line 3, of the other isotope and within odwn of the       *)
(* point of line 2, is not co-added into line 2.                           *)
C21_Witness ==
  /\ MolextDone /\ nlines = 4
  /\ IsHead(0)
  /\ res.cls[1].c = "added" /\ res.cls[1].head = 0
  /\ Iown(Line(1).wavn) # Iown(Line(0).wavn)
  /\ Line(2).isoid = Line(0).isoid
  /\ Abs(Line(2).wavn - OwnsV(Iown(Line(1).wavn))) < odwn
  /\ Abs(Line(2).wavn - OwnsV(Iown(Line(0).wavn))) >= odwn
  /\ IsHead(2)
  /\ Line(3).isoid # Line(2).isoid
  /\ Abs(Line(3).wavn - OwnsV(Iown(Line(2).wavn))) < odwn
  /\ IsHead(3)


(***************************************************************************)
(* Properties of the choice of the dynamic-sampling factor.                *)
(***************************************************************************)
(* Candidate c still resolves the narrowest line:                          *)
(* c*(dwn/owns.o) < 0.5*minwidth.                                          *)
Resolves(c) == 2 * c * dwn < arg.minwidth * Wnso

DivSet == {arg.odivs[k] : k \in 1 .. Len(arg.odivs)}

LargestResolving(c) ==
  /\ c \in DivSet /\ Resolves(c)
  /\ \A c2 \in DivSet : Resolves(c2) => c2 <= c

GridOfFactor ==
  /\ res.ddwn = odwn * res.ofactor
  /\ res.dnwn = 1 + (arg.onwn - 1) \div res.ofactor

(* C22 as stated: the factor chosen is a candidate and is the largest      *)
(* candidate c with c*(dwn/oversampling) < 0.5*minwidth, and the dynamic   *)
(* grid has spacing odwn*ofactor and 1 + (onwn-1)/ofactor points.          *)
C22_LargestResolvingDivisor ==
  res.f = "ofactor" => (LargestResolving(res.ofactor) /\ GridOfFactor)

(* C22, amended: the factor chosen is a candidate; it is the largest       *)
(* resolving candidate when the first candidate resolves, and the first    *)
(* candidate when it does not; the dynamic grid has spacing odwn*ofactor   *)
(* and 1 + (onwn-1)/ofactor points.                                        *)
C22_LargestResolvingOrFirst ==
  res.f = "ofactor" =>
    /\ res.ofactor \in DivSet
    /\ IF Resolves(arg.odivs[1]) THEN LargestResolving(res.ofactor)
       ELSE res.ofactor = arg.odivs[1]
    /\ GridOfFactor

(* Three candidates of which the middle one is the largest that resolves. *)
C22_Witness ==
  /\ res.f = "ofactor" /\ Len(arg.odivs) = 3
  /\ res.ofactor = arg.odivs[2]
  /\ Resolves(arg.odivs[2]) /\ ~Resolves(arg.odivs[3])


(* The window of the single line of the layer just computed. *)
OneWindow ==
  Window(Idwn(op.r, Line(0).wavn), Iown(Line(0).wavn), OneHalf, Ofactor(op.r), Dnwn(op.r))

(* C23: for an evaluated line with subw in [0, ofactor] and a profile of   *)
(* half-size p >= 1, every accumulator index j of the loop lies in         *)
(* 0 .. dnwn-1 and every profile index ofactor*j - offset read lies in     *)
(* 0 .. 2*p.                                                               *)
C23_AccumulationInBounds ==
  ( /\ OneLineDone /\ res.cls[0].c = "evaluated"
    /\ OneHalf >= 1
    /\ 0 <= OneWindow.subw /\ OneWindow.subw <= Ofactor(op.r) ) =>
      \A j \in OneWindow.minj .. OneWindow.maxj - 1 :
        /\ 0 <= j /\ j < Dnwn(op.r)
        /\ 0 <= Ofactor(op.r) * j - OneWindow.offset
        /\ Ofactor(op.r) * j - OneWindow.offset <= 2 * OneHalf


(***************************************************************************)
(* Properties of interpolmolext.                                           *)
(***************************************************************************)
(* C24: whatever the layer temperature, below, inside or above the         *)
(* tabulated temperatures, the index itemp that interpolmolext uses        *)
(* satisfies 0 <= itemp <= Ntemp-2 and gtemp[itemp] <= temp <=             *)
(* gtemp[itemp+1].                                                         *)
C24_ItempBrackets ==
  op.f = "interpolmolext" =>
    LET it == Itemp(op.r)
    IN  /\ 0 <= it /\ it <= Ntemp - 2
        /\ gtemp[it + 1] <= temp[op.r]
        /\ temp[op.r] <= gtemp[it + 2]

(* The tabulated temperatures that bracket t, and the opacity interpolated *)
(* between them.                                                           *)
Bracket(t) == CHOOSE k \in 1 .. Ntemp - 1 : gtemp[k] <= t /\ t < gtemp[k + 1]

Interpolated(m, t, i) ==
  LET k  == Bracket(t)
      lo == gtemp[k] * (m + 1) + i
      hi == gtemp[k + 1] * (m + 1) + i
  IN  Quot(lo * (gtemp[k + 1] - t) + hi * (t - gtemp[k]), gtemp[k + 1] - gtemp[k])

InsideTable(t) == gtemp[1] <= t /\ t < gtemp[Ntemp]

RECURSIVE Contribution(_, _, _)
(* The sum over the first n molecules of density times interpolated        *)
(* opacity.                                                                *)
Contribution(r, i, n) ==
  IF n = 0 THEN Quot(0, 1)
  ELSE QAdd(Contribution(r, i, n - 1),
            QMul(Quot(Density(r), 1), Interpolated(n - 1, temp[r], i)))

(* C27: a call of interpolmolext(r) that returns has added to row r: every *)
(* kiso[r][i] is its value before the call plus the sum over the tabulated *)
(* molecules of density times interpolated opacity; the other rows stay.   *)
C27_InterpolationAdds ==
  [][ (op'.f = "interpolmolext" /\ ret'.how = "return") =>
        LET r == op'.r
        IN  /\ InsideTable(temp[r]) =>
                 \A i \in 0 .. Nwave - 1 :
                   [n |-> At(e', r, i), d |-> At(eden', r, i)] = QAdd(Kiso(e, r, i), Contribution(r, i, Nmol))
            /\ \A i \in 0 .. Nwave - 1 :
                 [n |-> At(e', r, i), d |-> At(eden', r, i)] = QAdd(Kiso(e, r, i), InterpolAdd(r, i))
            /\ \A r2 \in Layers : r2 # r =>
                 (Row(e', r2) = Row(e, r2) /\ Row(eden', r2) = Row(eden, r2))
    ]_vars

(* Two calls on a layer whose row was zero: the row is twice the           *)
(* interpolated extinction.                                                *)
C27_Witness ==
  /\ op.f = "interpolmolext" /\ ret.how = "return"
  /\ InsideTable(temp[op.r])
  /\ \A i \in 0 .. Nwave - 1 :
       /\ At(saved.e, op.r, i) = 0
       /\ InterpolAdd(op.r, i).n > 0
       /\ Kiso(e, op.r, i) = QAdd(InterpolAdd(op.r, i), InterpolAdd(op.r, i))


ClassCount(c) == Cardinality({ln \in 0 .. nlines - 1 : res.cls[ln].c = c})

(* C25: the second pass of a computemolext that returns hands every line   *)
(* to exactly one class: a line                                            *)
(* inside the range is co-added into an earlier head, or heads a skipped   *)
(* group, or heads an evaluated group; a line left out lies outside the    *)
(* range; nadd, nskip and neval count the lines of their class, so their   *)
(* sum does not exceed nlines; and lines that are all left out leave the   *)
(* row zero.                                                               *)
C25_EveryLineOnce ==
  MolextDone =>
    /\ \A ln \in 0 .. nlines - 1 :
         /\ res.cls[ln].c \in {"out", "skipped", "evaluated", "added"}
         /\ ~OutsideRange(Line(ln).wavn) => res.cls[ln].c \in {"skipped", "evaluated", "added"}
         /\ res.cls[ln].c = "out" => OutsideRange(Line(ln).wavn)
         /\ res.cls[ln].c = "added" => (res.cls[ln].head < ln /\ IsHead(res.cls[ln].head))
         /\ IsHead(ln) => (res.cls[ln].head = ln /\ ~OutsideRange(Line(ln).wavn))
    /\ res.nadd = ClassCount("added")
    /\ res.nskip = ClassCount("skipped")
    /\ res.neval = ClassCount("evaluated")
    /\ res.nadd + res.nskip + res.neval + ClassCount("out") = nlines
    /\ res.nadd + res.nskip + res.neval <= nlines
    /\ ClassCount("out") = nlines => \A i \in 0 .. nwn - 1 : At(e, op.r, i) = 0

(* A line below the range left out, a head on the last grid point, and a   *)
(* line beyond the range co-added into it.                                 *)
C25_Witness ==
  /\ MolextDone /\ nlines = 3
  /\ res.cls[0].c = "out"
  /\ IsHead(1)
  /\ res.cls[2].c = "added" /\ OutsideRange(Line(2).wavn)

(* C26: for a strictly descending ip->v and any last valid index, the      *)
(* abscissas ipv[0..N-1] that modulation1 hands to the integrator are      *)
(* strictly increasing, no grid sample is used for two of them, and every  *)
(* index of ip->v, ipv and rinteg that is touched lies in 0 .. ipn-1.      *)
C26_AbscissasIncreasing ==
  (res.f = "modulation1" /\ res.out.how = "return") =>
    LET n     == res.out.n
        cells == res.out.cells
    IN  /\ \A i \in 0 .. n - 2 : cells[i].x < cells[i+1].x
        /\ \A i, j \in 0 .. n - 1 :
             (i # j /\ cells[i].set /\ cells[j].set) => cells[i].x # cells[j].x
        /\ ModReads(arg.last, arg.ipn) \subseteq 0 .. arg.ipn - 1
        /\ 0 .. n - 1 \subseteq 0 .. arg.ipn - 1

=============================================================================
